---- MODULE Spec2Model ----
(***************************************************************************)
(* PurgeBot: cleanup orchestration, retention resolution, control routes.  *)
(* Time is counted in whole days; a message's createdAt and the clock are  *)
(* day numbers, so "now - retention * 24*60*60*1000" is "now - retention". *)
(***************************************************************************)
EXTENDS Integers, Sequences, FiniteSets, TLC

(***************************************************************************)
(* JavaScript values as they come out of the YAML parser.  A number is     *)
(* n (half = FALSE) or n + 0.5 (half = TRUE).                              *)
(***************************************************************************)
Undef == [k |-> "undef", n |-> 0, half |-> FALSE]
Null == [k |-> "null", n |-> 0, half |-> FALSE]
NaN == [k |-> "nan", n |-> 0, half |-> FALSE]
Str == [k |-> "str", n |-> 0, half |-> FALSE]
Num(i) == [k |-> "num", n |-> i, half |-> FALSE]
Frac(i) == [k |-> "num", n |-> i, half |-> TRUE]
Bool(b) == [k |-> "bool", n |-> IF b THEN 1 ELSE 0, half |-> FALSE]

\* typeof v === 'number' (NaN is a number)
IsNumber(v) == v.k \in {"num", "nan"}

\* Number.isInteger(v)
IsInteger(v) == v.k = "num" /\ ~v.half

\* v < -1 on numbers (n + 0.5 < -1 iff n < -1 for integer n; NaN compares false)
LessThanMinusOne(v) == v.k = "num" /\ v.n < -1

\* v === true
IsTrue(v) == v = Bool(TRUE)

\* !!v
Truthy(v) ==
  CASE v.k = "bool" -> v.n = 1
    [] v.k = "num" -> (v.n # 0 \/ v.half)
    [] v.k = "str" -> TRUE
    [] OTHER -> FALSE

\* ToNumber(v) for the values arithmetic is applied to (null -> 0)
ToNumber(v) == IF v.k = "num" THEN v.n ELSE 0

(***************************************************************************)
(* Names.                                                                  *)
(***************************************************************************)
CatNames == {"alpha", "beta"}
ChanNames == {"archive", "general", "logs"}

\* a plain entry "general" has ov = Undef; a mapping {general: 3} has ov = Num(3)
Plain(name) == [name |-> name, ov |-> Undef]
Override(name, v) == [name |-> name, ov |-> v]

(***************************************************************************)
(* Retention resolution.                                                   *)
(***************************************************************************)
RECURSIVE getChannelOverrideFrom(_, _, _)
getChannelOverrideFrom(chs, i, channelName) ==
  IF i > Len(chs) THEN Undef
  ELSE IF chs[i].name = channelName /\ chs[i].ov # Undef THEN chs[i].ov
  ELSE getChannelOverrideFrom(chs, i + 1, channelName)

getChannelOverride(cat, channelName) == getChannelOverrideFrom(cat.channels, 1, channelName)

isEnabledIn(cfg, categoryName) ==
  IF categoryName \notin DOMAIN cfg.categories THEN FALSE
  ELSE IsTrue(cfg.categories[categoryName].enabled)

\* a validation without the lower bound
validateRetention_NoRange(cfg, value) ==
  IF ~IsNumber(value) \/ ~IsInteger(value)
  THEN [ret |-> cfg.globalDefault, warn |-> TRUE]
  ELSE [ret |-> value, warn |-> FALSE]

\* must be integer, >= -1; otherwise the global default, with a warning
validateRetention(cfg, value) ==
  IF ~IsNumber(value) \/ ~IsInteger(value) \/ LessThanMinusOne(value)
  THEN [ret |-> cfg.globalDefault, warn |-> TRUE]
  ELSE [ret |-> value, warn |-> FALSE]

\* a resolution that looks at the category default before the inline override
getRetention_CategoryFirst(cfg, categoryName, channelName) ==
  IF categoryName \notin DOMAIN cfg.categories THEN [ret |-> Null, warn |-> FALSE]
  ELSE LET cat == cfg.categories[categoryName]
           override == getChannelOverride(cat, channelName)
       IN IF cat.default # Undef THEN validateRetention(cfg, cat.default)
          ELSE IF override # Undef THEN validateRetention(cfg, override)
          ELSE [ret |-> cfg.globalDefault, warn |-> FALSE]

\* inline override, then category default, then global default
getRetention(cfg, categoryName, channelName) ==
  IF categoryName \notin DOMAIN cfg.categories THEN [ret |-> Null, warn |-> FALSE]
  ELSE LET cat == cfg.categories[categoryName]
           override == getChannelOverride(cat, channelName)
       IN IF override # Undef THEN validateRetention(cfg, override)
          ELSE IF cat.default # Undef THEN validateRetention(cfg, cat.default)
          ELSE [ret |-> cfg.globalDefault, warn |-> FALSE]

getRetentionSource(cfg, categoryName, channelName) ==
  IF categoryName \notin DOMAIN cfg.categories THEN "global"
  ELSE LET cat == cfg.categories[categoryName]
       IN IF getChannelOverride(cat, channelName) # Undef THEN "override"
          ELSE IF cat.default # Undef THEN "category"
          ELSE "global"

(***************************************************************************)
(* Bounds of the model.                                                    *)
(***************************************************************************)
\* day number of the clock in the initial state
StartDay == 20
\* how many cleanup runs may be accepted
MaxRuns == 2
\* how many events of the environment may happen: dashboard updates, cancellations,
\* failed calls of a run, clock ticks, changes to the guild and to the file
MaxEvents == 1

(***************************************************************************)
(* Program constants.                                                      *)
(***************************************************************************)
\* fallback of loadConfig for a missing or invalid globalDefault
DefaultGlobalDefault == 7
\* Discord's bulk-delete window in days
BulkDeleteDays == 14
\* page size of channel.messages.fetch
FetchPageSize == 100
\* batch size of channel.bulkDelete
BulkBatchSize == 100

(***************************************************************************)
(* The platform (guild): categories, their text channels, in cache order.  *)
(***************************************************************************)
NameRank == [archive |-> 1, general |-> 2, logs |-> 3, alpha |-> 1, beta |-> 2]

Min(a, b) == IF a < b THEN a ELSE b
Max(a, b) == IF a > b THEN a ELSE b

RECURSIVE SortNames(_)
\* [...names].sort()
SortNames(S) ==
  IF S = {} THEN <<>>
  ELSE LET m == CHOOSE x \in S : \A y \in S : NameRank[x] <= NameRank[y]
       IN <<m>> \o SortNames(S \ {m})

SeqToSet(s) == {s[i] : i \in 1..Len(s)}

\* first n elements: s.slice(0, n)
Take(s, n) == SubSeq(s, 1, Min(n, Len(s)))

\* guild.channels.cache grouped by parent category name
GuildCategories == [alpha |-> <<"general", "archive">>, beta |-> <<"logs">>]
GuildOrder == <<"alpha", "beta">>

(***************************************************************************)
(* Configuration.                                                          *)
(***************************************************************************)
\* Returns channel names listed in _channels for a category
getConfiguredChannels(cfg, categoryName) ==
  IF categoryName \notin DOMAIN cfg.categories THEN {}
  ELSE {e.name : e \in SeqToSet(cfg.categories[categoryName].channels)}

\* loadConfig's defaults and validation applied to the parsed document
NormalizeConfig(parsed) ==
  [parsed EXCEPT
     !.globalDefault =
        LET g == IF parsed.globalDefault \in {Undef, Null} THEN Num(DefaultGlobalDefault)
                 ELSE parsed.globalDefault
        IN IF ~IsNumber(g) \/ ~IsInteger(g) \/ LessThanMinusOne(g)
           THEN Num(DefaultGlobalDefault) ELSE g,
     !.maxMessages = Max(1, parsed.maxMessages),
     !.maxOld = Max(0, parsed.maxOld),
     !.discoveryComplete = FALSE]

\* a reload that clears the internal key before it reads the file
loadConfig_ClearsFirst(cfg, file) ==
  IF file.ok THEN NormalizeConfig(file.data) ELSE [cfg EXCEPT !.discoveryComplete = FALSE]

\* loadConfig(false): a failed read or parse keeps the previous configuration
loadConfig(cfg, file) ==
  IF file.ok THEN NormalizeConfig(file.data) ELSE cfg

\* configForDisk + yaml.dump + writeFileSync/renameSync
configForDisk(cfg) == [ok |-> TRUE, data |-> [cfg EXCEPT !.discoveryComplete = FALSE]]

(***************************************************************************)
(* State.                                                                  *)
(***************************************************************************)
VARIABLES
  config,            \* the in-memory configuration object
  disk,              \* config.yaml: [ok, data]
  guildPresent,      \* client.guilds.cache.get(GUILD_ID) is defined
  store,             \* messages of each platform channel
  now,               \* the clock, in days
  cleanupRunning,    \* bot.js: let cleanupRunning
  cleanupCancelled,  \* bot.js: let cleanupCancelled
  syncRunning,       \* routes/control.js: let syncRunning
  cronJob,           \* bot.js: let cronJob
  run,               \* locals and position of the runCleanup call in flight
  sync,              \* position of the POST /sync handler in flight
  stats,             \* stats.json
  resolved,          \* result of the last retention resolution (SpecRetention) or
                     \* answer of the last full sync (SpecSync)
  fetchLog,          \* history: message fetches issued
  deleteLog,         \* history: messages deleted by delete calls
  skipLog,           \* history: channels passed over by the channel loop
  used,              \* history: how many runs and other events have happened
  lastStep,          \* history: what the last handler did with its request or file
  tmpFile            \* config.yaml.tmp / stats.json.tmp and the write under way

vars == <<config, disk, guildPresent, store, now, cleanupRunning, cleanupCancelled,
          syncRunning, cronJob, run, sync, stats, resolved, fetchLog, deleteLog,
          skipLog, used, lastStep, tmpFile>>

(***************************************************************************)
(* Incremental discovery.                                                  *)
(***************************************************************************)
RECURSIVE InsertEntry(_, _)
\* position of a pushed entry after the stable sort by name
InsertEntry(chs, e) ==
  IF chs = <<>> THEN <<e>>
  ELSE IF NameRank[Head(chs).name] <= NameRank[e.name]
       THEN <<Head(chs)>> \o InsertEntry(Tail(chs), e)
       ELSE <<e>> \o chs

RECURSIVE SortEntries(_)
\* cat._channels.sort((a, b) => nameA.localeCompare(nameB)), a stable sort
SortEntries(chs) ==
  IF chs = <<>> THEN <<>>
  ELSE InsertEntry(SortEntries(SubSeq(chs, 1, Len(chs) - 1)), chs[Len(chs)])

PlainEntries(names) == [i \in 1..Len(names) |-> Plain(names[i])]

NewCategory(cfg, channels) ==
  [enabled |-> Bool(FALSE), default |-> cfg.globalDefault, deleteOld |-> Undef,
   overrides |-> [present |-> FALSE, map |-> <<>>],
   channels |-> PlainEntries(SortNames(SeqToSet(channels)))]

\* a loop that writes the list anew from the platform's channels
AddChannels_Overwrites(cat, names, existingNames) ==
  [cat |-> [cat EXCEPT !.channels = PlainEntries(names)],
   added |-> Cardinality(SeqToSet(names) \ existingNames)]

RECURSIVE AddChannels(_, _, _)
\* the inner loop of autoDiscoverChannels over sortedChannels
AddChannels(catIn, namesIn, existingNames) ==
  CHOOSE out \in {(
      IF names = <<>> THEN [cat |-> cat, added |-> 0]
      ELSE IF Head(names) \in existingNames
           THEN AddChannels(cat, Tail(names), existingNames)
           ELSE LET c2 == [cat EXCEPT !.channels = SortEntries(Append(@, Plain(Head(names))))]
                    rest == AddChannels(c2, Tail(names), existingNames)
                IN [cat |-> rest.cat, added |-> rest.added + 1]
    ) : cat \in {catIn}, names \in {namesIn}} : TRUE

RECURSIVE DiscoverFrom(_, _, _)
\* the loop of autoDiscoverChannels over discoveredMap
DiscoverFrom(dIn, g, orderIn) ==
  CHOOSE out \in {(
      IF order = <<>> THEN d
      ELSE LET catName == Head(order)
               channels == g[catName]
           IN IF channels = <<>> THEN DiscoverFrom(d, g, Tail(order))
              ELSE IF catName \notin DOMAIN d.cfg.categories
              THEN DiscoverFrom(
                     [d EXCEPT !.cfg.categories =
                                  [c \in DOMAIN @ \cup {catName} |->
                                     IF c = catName THEN NewCategory(d.cfg, channels) ELSE @[c]],
                               !.changes = @ + 1,
                               !.discoveries = @ + 1],
                     g, Tail(order))
              ELSE LET res == AddChannels(d.cfg.categories[catName],
                                          SortNames(SeqToSet(channels)),
                                          getConfiguredChannels(d.cfg, catName))
                   IN DiscoverFrom(
                        [d EXCEPT !.cfg.categories[catName] = res.cat,
                                  !.changes = @ + res.added,
                                  !.discoveries = @ + res.added],
                        g, Tail(order))
    ) : d \in {dIn}, order \in {orderIn}} : TRUE

\* autoDiscoverChannels up to its configuration write: the new configuration,
\* whether the file is written, and whether a notification is sent
autoDiscoverChannels(cfg, g, order) ==
  CHOOSE out \in {(
      LET isFirstDiscovery == ~cfg.discoveryComplete
          write == d.changes > 0 \/ isFirstDiscovery
      IN [cfg |-> IF write THEN [d.cfg EXCEPT !.discoveryComplete = TRUE] ELSE d.cfg,
          changes |-> d.changes,
          write |-> write,
          notify |-> write /\ ~isFirstDiscovery /\ d.discoveries > 0]
    ) : d \in {DiscoverFrom([cfg |-> cfg, changes |-> 0, discoveries |-> 0], g, order)}} : TRUE

(***************************************************************************)
(* Stats persistence.                                                      *)
(***************************************************************************)
HistoryCap == 90
ChannelTotalsCap == 200
CategoryTotalsCap == 100

EmptyMap == [x \in {} |-> 0]
NoRun == [present |-> FALSE]

Lookup(f, key) == IF key \in DOMAIN f THEN f[key] ELSE 0

RECURSIVE SumPurged(_)
SumPurged(results) ==
  IF results = <<>> THEN 0 ELSE Head(results).purged + SumPurged(Tail(results))

\* a pruning that sorts ascending: the cap lowest counts stay
PruneTotals_Ascending(totals, cap) ==
  IF Cardinality(DOMAIN totals) <= cap THEN totals
  ELSE LET entries == {<<key, totals[key]>> : key \in DOMAIN totals}
           atMost(v) == Cardinality({e \in entries : e[2] <= v})
           reach == {v \in {e[2] : e \in entries} : atMost(v) >= cap}
           cut == CHOOSE v \in reach : \A w \in reach : w >= v
           sure == {e \in entries : e[2] < cut}
           edge == {e \in entries : e[2] = cut}
           keep == sure \cup (CHOOSE T \in SUBSET edge :
                                Cardinality(T) = cap - Cardinality(sure))
       IN [key \in {e[1] : e \in keep} |-> totals[key]]

\* keep the cap highest counts: Object.entries, sort descending, slice(0, cap).
\* cut is the count at which the sorted entries reach cap: every entry above
\* it is kept, and of the entries at it (the stable sort keeps them in
\* insertion order, which the map does not record) as many as still fit.
PruneTotals(totals, cap) ==
  IF Cardinality(DOMAIN totals) <= cap THEN totals
  ELSE LET entries == {<<key, totals[key]>> : key \in DOMAIN totals}
           atLeast(v) == Cardinality({e \in entries : e[2] >= v})
           reach == {v \in {e[2] : e \in entries} : atLeast(v) >= cap}
           cut == CHOOSE v \in reach : \A w \in reach : w <= v
           sure == {e \in entries : e[2] > cut}
           edge == {e \in entries : e[2] = cut}
           keep == sure \cup (CHOOSE T \in SUBSET edge :
                                Cardinality(T) = cap - Cardinality(sure))
       IN [key \in {e[1] : e \in keep} |-> totals[key]]

RECURSIVE PurgedOf(_, _)
\* what one run adds to the total of a channel name
PurgedOf(results, name) ==
  IF results = <<>> THEN 0
  ELSE (IF Head(results).name = name /\ Head(results).purged > 0 THEN Head(results).purged ELSE 0)
       + PurgedOf(Tail(results), name)

\* channelTotals after the per-channel loop of one run (key catName + '/' + ch.name)
AddChannelTotals(totals, categories) ==
  LET keys == UNION {{<<c, categories[c].channels[i].name>> :
                        i \in {j \in 1..Len(categories[c].channels) :
                                 categories[c].channels[j].purged > 0}} :
                     c \in DOMAIN categories}
  IN [key \in DOMAIN totals \cup keys |->
        Lookup(totals, key)
        + (IF key \in keys THEN PurgedOf(categories[key[1]].channels, key[2]) ELSE 0)]

AddCategoryTotals(totals, categories) ==
  [c \in DOMAIN totals \cup DOMAIN categories |->
     Lookup(totals, c) + (IF c \in DOMAIN categories THEN categories[c].purged ELSE 0)]

HistoryEntry(lastRun) ==
  [timestamp |-> lastRun.timestamp, purged |-> lastRun.totalPurged,
   errors |-> lastRun.totalErrors, dryRun |-> lastRun.dryRun, trigger |-> lastRun.trigger,
   categories |-> [c \in DOMAIN lastRun.categories |->
                     [purged |-> lastRun.categories[c].purged,
                      errors |-> lastRun.categories[c].errors]]]

\* a history that is never cut
persistStats_NoHistoryCap(data, lastRun) ==
  LET live == ~lastRun.dryRun
      lifetime0 == IF data.lifetime.present THEN data.lifetime
                   ELSE [present |-> TRUE, totalRuns |-> 0, totalPurged |-> 0,
                         totalErrors |-> 0, firstRun |-> lastRun.timestamp]
  IN [lastRun |-> lastRun,
      lastLiveRun |-> IF live THEN lastRun ELSE data.lastLiveRun,
      history |-> <<HistoryEntry(lastRun)>> \o data.history,
      lifetime |-> IF live
                   THEN [lifetime0 EXCEPT !.totalRuns = @ + 1,
                                          !.totalPurged = @ + lastRun.totalPurged,
                                          !.totalErrors = @ + lastRun.totalErrors]
                   ELSE data.lifetime,
      channelTotals |-> IF live
                        THEN PruneTotals(AddChannelTotals(data.channelTotals, lastRun.categories),
                                         ChannelTotalsCap)
                        ELSE data.channelTotals,
      categoryTotals |-> IF live
                         THEN PruneTotals(AddCategoryTotals(data.categoryTotals, lastRun.categories),
                                          CategoryTotalsCap)
                         ELSE data.categoryTotals]

\* cumulative counters that take every run, dry or live
persistStats_CountsDryRuns(data, lastRun) ==
  LET live == TRUE
      lifetime0 == IF data.lifetime.present THEN data.lifetime
                   ELSE [present |-> TRUE, totalRuns |-> 0, totalPurged |-> 0,
                         totalErrors |-> 0, firstRun |-> lastRun.timestamp]
  IN [lastRun |-> lastRun,
      lastLiveRun |-> IF live THEN lastRun ELSE data.lastLiveRun,
      history |-> Take(<<HistoryEntry(lastRun)>> \o data.history, HistoryCap),
      lifetime |-> IF live
                   THEN [lifetime0 EXCEPT !.totalRuns = @ + 1,
                                          !.totalPurged = @ + lastRun.totalPurged,
                                          !.totalErrors = @ + lastRun.totalErrors]
                   ELSE data.lifetime,
      channelTotals |-> IF live
                        THEN PruneTotals(AddChannelTotals(data.channelTotals, lastRun.categories),
                                         ChannelTotalsCap)
                        ELSE data.channelTotals,
      categoryTotals |-> IF live
                         THEN PruneTotals(AddCategoryTotals(data.categoryTotals, lastRun.categories),
                                          CategoryTotalsCap)
                         ELSE data.categoryTotals]

persistStats(data, lastRun) ==
  LET live == ~lastRun.dryRun
      lifetime0 == IF data.lifetime.present THEN data.lifetime
                   ELSE [present |-> TRUE, totalRuns |-> 0, totalPurged |-> 0,
                         totalErrors |-> 0, firstRun |-> lastRun.timestamp]
  IN [lastRun |-> lastRun,
      lastLiveRun |-> IF live THEN lastRun ELSE data.lastLiveRun,
      history |-> Take(<<HistoryEntry(lastRun)>> \o data.history, HistoryCap),
      lifetime |-> IF live
                   THEN [lifetime0 EXCEPT !.totalRuns = @ + 1,
                                          !.totalPurged = @ + lastRun.totalPurged,
                                          !.totalErrors = @ + lastRun.totalErrors]
                   ELSE data.lifetime,
      channelTotals |-> IF live
                        THEN PruneTotals(AddChannelTotals(data.channelTotals, lastRun.categories),
                                         ChannelTotalsCap)
                        ELSE data.channelTotals,
      categoryTotals |-> IF live
                         THEN PruneTotals(AddCategoryTotals(data.categoryTotals, lastRun.categories),
                                          CategoryTotalsCap)
                         ELSE data.categoryTotals]

\* stats.json does not exist yet
NoStats ==
  [lastRun |-> NoRun, lastLiveRun |-> NoRun, history |-> <<>>,
   lifetime |-> [present |-> FALSE, totalRuns |-> 0, totalPurged |-> 0, totalErrors |-> 0,
                 firstRun |-> 0],
   channelTotals |-> EmptyMap, categoryTotals |-> EmptyMap]

(***************************************************************************)
(* runCleanup: the locals of the call in flight.  pc names the await the   *)
(* call is suspended at.                                                   *)
(***************************************************************************)
IdleRun ==
  [pc |-> "idle", dry |-> FALSE, catFilter |-> "", chanFilter |-> "", trigger |-> "schedule",
   startTime |-> 0, catMap |-> <<>>, ci |-> 0, chi |-> 0,
   allowed |-> {}, deleteOld |-> FALSE, channelResults |-> <<>>, catErrors |-> FALSE,
   retention |-> Undef, retentionSource |-> "", chanNow |-> 0, maxMessages |-> 0,
   bulkDeletable |-> <<>>, oldDeletable |-> <<>>, oldToDelete |-> <<>>,
   lastId |-> 0, fetched |-> 0, deleted |-> 0, bi |-> 0, oi |-> 0,
   totalProcessed |-> 0, totalPurged |-> 0, totalSkipped |-> 0, totalErrors |-> 0,
   categoryStats |-> EmptyMap, embeds |-> 0, cancelled |-> FALSE,
   \* history fields
   enabledAtEntry |-> FALSE, enabledAtCall |-> FALSE, skips |-> {},
   runNo |-> 0, seen |-> {}, callAt |-> 0, remaining |-> 0,
   forceDryRun |-> FALSE, forceLive |-> FALSE, configDryRun |-> FALSE,
   startEnabled |-> {}, eventsAtDiscovery |-> 0, delFailed |-> FALSE]

CurCat(r) == r.catMap[r.ci].name
CurChannels(r) == r.catMap[r.ci].chans
CurChan(r) == CurChannels(r)[r.chi]

\* categoryChannelMap built from the cache: categories that have text channels
RECURSIVE BuildCategoryMap(_, _)
BuildCategoryMap(g, order) ==
  IF order = <<>> THEN <<>>
  ELSE (IF g[Head(order)] = <<>> THEN <<>>
        ELSE <<[name |-> Head(order), chans |-> g[Head(order)]]>>)
       \o BuildCategoryMap(g, Tail(order))

\* channelResults.push(...) for a scanned channel, with or without error
ChannelResult(r, purged, error) ==
  [name |-> CurChan(r), skipped |-> FALSE, retention |-> r.retention,
   retentionSource |-> r.retentionSource, purged |-> purged, error |-> error]

SkippedResult(name) ==
  [name |-> name, skipped |-> TRUE, retention |-> Undef, retentionSource |-> "",
   purged |-> 0, error |-> FALSE]

\* a reported count that leaves the cap out
PushResult_NoCap(r, cfg) ==
  LET cappedTotal == Len(r.bulkDeletable) + Len(r.oldDeletable)
      purgedCount == IF r.dry THEN cappedTotal ELSE r.deleted
  IN [r EXCEPT !.channelResults = Append(@, ChannelResult(r, purgedCount, FALSE)),
               !.pc = "sleepChan"]

\* the end of the try block of one channel: push the result, then await sleep
PushResult(rIn, cfg) ==
  CHOOSE out \in {(
      LET cappedTotal == Len(r.bulkDeletable) + Min(Len(r.oldDeletable), cfg.maxOld)
          purgedCount == IF r.dry THEN cappedTotal ELSE r.deleted
      IN [r EXCEPT !.channelResults = Append(@, ChannelResult(r, purgedCount, FALSE)),
                   !.pc = "sleepChan"]
    ) : r \in {rIn}} : TRUE

\* a catch block that gives up the rest of the run
ChannelError_EndsRun(r) ==
  [r EXCEPT !.channelResults = Append(@, ChannelResult(r, 0, TRUE)),
            !.catErrors = TRUE,
            !.totalErrors = @ + 1,
            !.pc = "end"]

\* the catch block of one channel
ChannelError(r) ==
  [r EXCEPT !.channelResults = Append(@, ChannelResult(r, 0, TRUE)),
            !.catErrors = TRUE,
            !.totalErrors = @ + 1,
            !.pc = "sleepChan"]

\* for (const msg of oldToDelete): the loop head, then await msg.delete()
OldNext(rIn, cfg, cancelled) ==
  CHOOSE out \in {(
      IF r.oi <= Len(r.oldToDelete) /\ ~cancelled
      THEN [r EXCEPT !.pc = "oldDel"]
      ELSE PushResult([r EXCEPT !.totalPurged = @ + r.deleted], cfg)
    ) : r \in {rIn}} : TRUE

\* the count the "old remaining" / "old messages remain" log lines give, 0 for no line
RemainingOld(r, maxOld) ==
  IF Len(r.oldDeletable) > maxOld THEN Len(r.oldDeletable) - maxOld ELSE 0

\* an old loop over every individually-eligible message
StartOld_NoCap(r, cfg, cancelled) ==
  OldNext([r EXCEPT !.oldToDelete = r.oldDeletable, !.oi = 1,
                    !.remaining = RemainingOld(r, cfg.maxOld)], cfg, cancelled)

\* after the bulk loop: slice the old messages to the cap
StartOld(rIn, cfg, cancelled) ==
  CHOOSE out \in {(
      OldNext([r EXCEPT !.oldToDelete = Take(r.oldDeletable, cfg.maxOld), !.oi = 1,
                        !.remaining = RemainingOld(r, cfg.maxOld)], cfg, cancelled)
    ) : r \in {rIn}} : TRUE

\* a channel whose deletion does not look at the mode
AfterFetch_NoDryBranch(r, cfg, cancelled) ==
  LET totalDeletable == Len(r.bulkDeletable) + Len(r.oldDeletable)
  IN IF totalDeletable = 0 THEN PushResult(r, cfg)
     ELSE IF Len(r.bulkDeletable) > 0 THEN [r EXCEPT !.pc = "bulkDel", !.bi = 0]
     ELSE StartOld(r, cfg, cancelled)

\* after the fetch loop of one channel
AfterFetch(rIn, cfg, cancelled) ==
  CHOOSE out \in {(
      LET totalDeletable == Len(r.bulkDeletable) + Len(r.oldDeletable)
          cappedOld == Len(Take(r.oldDeletable, cfg.maxOld))
          wouldDelete == Len(r.bulkDeletable) + cappedOld
      IN IF totalDeletable = 0 THEN PushResult([r EXCEPT !.remaining = 0], cfg)
         ELSE IF r.dry THEN PushResult([r EXCEPT !.totalPurged = @ + wouldDelete,
                                                 !.remaining = RemainingOld(r, cfg.maxOld)], cfg)
         ELSE IF Len(r.bulkDeletable) > 0 THEN [r EXCEPT !.pc = "bulkDel", !.bi = 0]
         ELSE StartOld(r, cfg, cancelled)
    ) : r \in {rIn}} : TRUE

\* a classification that does not look at the pin
ClassifyNoPinCheck(r, cfg, msg) ==
  LET cutoff == r.chanNow - ToNumber(r.retention)
      bulkDeleteLimit == r.chanNow - BulkDeleteDays
      m == [id |-> msg.id, createdAt |-> msg.createdAt, pinned |-> msg.pinned,
            skipPinned |-> cfg.skipPinned]
  IN IF msg.createdAt < cutoff
     THEN IF msg.createdAt > bulkDeleteLimit
          THEN [r EXCEPT !.bulkDeletable = Append(@, m)]
          ELSE IF r.deleteOld THEN [r EXCEPT !.oldDeletable = Append(@, m)]
          ELSE r
     ELSE r

\* a classification that takes the message created exactly at the cutoff
ClassifyAtCutoff(r, cfg, msg) ==
  LET cutoff == r.chanNow - ToNumber(r.retention)
      bulkDeleteLimit == r.chanNow - BulkDeleteDays
      m == [id |-> msg.id, createdAt |-> msg.createdAt, pinned |-> msg.pinned,
            skipPinned |-> cfg.skipPinned]
  IN IF msg.pinned /\ cfg.skipPinned THEN r
     ELSE IF msg.createdAt <= cutoff
     THEN IF msg.createdAt > bulkDeleteLimit
          THEN [r EXCEPT !.bulkDeletable = Append(@, m)]
          ELSE IF r.deleteOld THEN [r EXCEPT !.oldDeletable = Append(@, m)]
          ELSE r
     ELSE r

\* a classification that takes the message at the 14-day boundary as bulk-eligible
ClassifyBoundaryBulk(r, cfg, msg) ==
  LET cutoff == r.chanNow - ToNumber(r.retention)
      bulkDeleteLimit == r.chanNow - BulkDeleteDays
      m == [id |-> msg.id, createdAt |-> msg.createdAt, pinned |-> msg.pinned,
            skipPinned |-> cfg.skipPinned]
  IN IF msg.pinned /\ cfg.skipPinned THEN r
     ELSE IF msg.createdAt < cutoff
     THEN IF msg.createdAt >= bulkDeleteLimit
          THEN [r EXCEPT !.bulkDeletable = Append(@, m)]
          ELSE IF r.deleteOld THEN [r EXCEPT !.oldDeletable = Append(@, m)]
          ELSE r
     ELSE r

\* the classification of one message of a fetched page
Classify(r, cfg, msg) ==
  LET cutoff == r.chanNow - ToNumber(r.retention)
      bulkDeleteLimit == r.chanNow - BulkDeleteDays
      m == [id |-> msg.id, createdAt |-> msg.createdAt, pinned |-> msg.pinned,
            skipPinned |-> cfg.skipPinned]
  IN IF msg.pinned /\ cfg.skipPinned THEN r
     ELSE IF msg.createdAt < cutoff
     THEN IF msg.createdAt > bulkDeleteLimit
          THEN [r EXCEPT !.bulkDeletable = Append(@, m)]
          ELSE IF r.deleteOld THEN [r EXCEPT !.oldDeletable = Append(@, m)]
          ELSE r
     ELSE r

\* for (const [, msg] of messages): every message of the page is classified on
\* its own (the classification reads neither list) and pushed in page order
ClassifyPage(r, cfg, page) ==
  LET blank == [r EXCEPT !.bulkDeletable = <<>>, !.oldDeletable = <<>>]
      each == [i \in 1..Len(page) |-> Classify(blank, cfg, page[i])]
      bulk == SelectSeq(each, LAMBDA c : c.bulkDeletable # <<>>)
      old == SelectSeq(each, LAMBDA c : c.oldDeletable # <<>>)
  IN [r EXCEPT !.bulkDeletable = @ \o [k \in 1..Len(bulk) |-> bulk[k].bulkDeletable[1]],
               !.oldDeletable = @ \o [k \in 1..Len(old) |-> old[k].oldDeletable[1]]]

\* the messages of a channel by descending id (ids are unique in a channel)
NewestFirst(msgs) ==
  LET ranked == {<<Cardinality({y \in msgs : y.id > m.id}) + 1, m>> : m \in msgs}
  IN [i \in 1..Cardinality(msgs) |-> (CHOOSE p \in ranked : p[1] = i)[2]]

\* channel.messages.fetch({limit, before}): the newest messages older than `before`
FetchPage(msgs, lastId, limit) ==
  Take(NewestFirst({m \in msgs : lastId = 0 \/ m.id < lastId}), limit)

\* the batch size the fetch loop asks for
FetchLimit(r) == Min(FetchPageSize, r.maxMessages - r.fetched)

\* a fetch loop without the break on an empty page
AfterPage_NoBreak(r, cfg, page, cancelled) ==
  IF page = <<>>
  THEN r
  ELSE LET r2 == [ClassifyPage(r, cfg, page) EXCEPT
                    !.lastId = page[Len(page)].id,
                    !.fetched = @ + Len(page),
                    !.seen = (IF r.fetched = 0 THEN {} ELSE @) \cup SeqToSet(page)]
       IN IF r2.fetched < r2.maxMessages THEN [r2 EXCEPT !.pc = "fetch"]
          ELSE AfterFetch(r2, cfg, cancelled)

\* one iteration of the fetch loop once the page has arrived
AfterPage(r, cfg, page, cancelled) ==
  IF page = <<>>
  THEN AfterFetch([r EXCEPT !.seen = IF r.fetched = 0 THEN {} ELSE @], cfg, cancelled)
  ELSE CHOOSE out \in
         {(IF r2.fetched < r2.maxMessages THEN [r2 EXCEPT !.pc = "fetch"]
           ELSE AfterFetch(r2, cfg, cancelled)) :
            r2 \in {[ClassifyPage(r, cfg, page) EXCEPT
                       !.lastId = page[Len(page)].id,
                       !.fetched = @ + Len(page),
                       !.seen = (IF r.fetched = 0 THEN {} ELSE @) \cup SeqToSet(page)]}} : TRUE

\* "Collect per-category stats" and the embed, at the end of one category
CatEnd(r) ==
  LET catPurged == SumPurged(r.channelResults)
      errCount == Cardinality({i \in 1..Len(r.channelResults) : r.channelResults[i].error})
      hasPurged == \E i \in 1..Len(r.channelResults) : r.channelResults[i].purged > 0
      entry == [processed |-> Len(r.channelResults), purged |-> catPurged,
                errors |-> errCount, channels |-> r.channelResults]
  IN [r EXCEPT !.categoryStats = [c \in DOMAIN @ \cup {CurCat(r)} |->
                                    IF c = CurCat(r) THEN entry ELSE @[c]],
               !.embeds = IF hasPurged \/ r.catErrors THEN @ + 1 ELSE @,
               !.ci = @ + 1, !.chi = 0, !.pc = "catLoop"]

\* after the category loop: the summary log, then the webhook if there are embeds
Summary(r, cfg, cancelled) ==
  [r EXCEPT !.cancelled = cancelled,
            !.pc = IF r.embeds > 0 /\ cfg.webhookCleanup THEN "webhook" ELSE "end"]

\* a category loop that does not look at the enabled flag
EnterCategory_NoEnabledCheck(r, cfg) ==
  LET catName == CurCat(r)
  IN IF r.catFilter # "" /\ catName # r.catFilter
     THEN [r EXCEPT !.ci = @ + 1]
     ELSE [r EXCEPT !.pc = "chanLoop", !.chi = 1,
                    !.allowed = getConfiguredChannels(cfg, catName),
                    !.deleteOld = (catName \in DOMAIN cfg.categories
                                   /\ cfg.categories[catName].deleteOld # Bool(FALSE)),
                    !.channelResults = <<>>, !.catErrors = FALSE,
                    !.enabledAtEntry = isEnabledIn(cfg, catName)]

\* the category loop's checks before a category is processed
EnterCategory(r, cfg) ==
  LET catName == CurCat(r)
  IN IF ~isEnabledIn(cfg, catName)
     THEN [r EXCEPT !.totalSkipped = @ + Len(CurChannels(r)), !.ci = @ + 1]
     ELSE IF r.catFilter # "" /\ catName # r.catFilter
     THEN [r EXCEPT !.ci = @ + 1]
     ELSE [r EXCEPT !.pc = "chanLoop", !.chi = 1,
                    !.allowed = getConfiguredChannels(cfg, catName),
                    !.deleteOld = (cfg.categories[catName].deleteOld # Bool(FALSE)),
                    !.channelResults = <<>>, !.catErrors = FALSE,
                    !.enabledAtEntry = isEnabledIn(cfg, catName)]

\* history: the channel loop went from r to r2 without scanning the channel
Skipped(r, r2, why, retention) ==
  [r2 EXCEPT !.skips = @ \cup
     {[cat |-> CurCat(r), chan |-> CurChan(r), why |-> why, retention |-> retention,
       counted |-> r2.totalSkipped = r.totalSkipped + 1,
       recorded |-> /\ Len(r2.channelResults) = Len(r.channelResults) + 1
                    /\ r2.channelResults[Len(r2.channelResults)] = SkippedResult(CurChan(r)),
       dry |-> r.dry]}]

\* a channel loop that does not look at the allow-list
EnterChannel_NoAllowList(r, cfg, t) ==
  LET catName == CurCat(r)
      chanName == CurChan(r)
      res == getRetention(cfg, catName, chanName)
  IN IF r.chanFilter # "" /\ chanName # r.chanFilter
     THEN [r EXCEPT !.chi = @ + 1]
     ELSE IF res.ret = Num(-1)
     THEN Skipped(r, [r EXCEPT !.totalProcessed = @ + 1,
                               !.channelResults = Append(@, SkippedResult(chanName)),
                               !.chi = @ + 1], "never", res.ret)
     ELSE [r EXCEPT !.totalProcessed = @ + 1,
                    !.retention = res.ret,
                    !.retentionSource = getRetentionSource(cfg, catName, chanName),
                    !.chanNow = t, !.maxMessages = cfg.maxMessages,
                    !.bulkDeletable = <<>>, !.oldDeletable = <<>>, !.oldToDelete = <<>>,
                    !.lastId = 0, !.fetched = 0, !.deleted = 0, !.bi = 0, !.oi = 0,
                    !.delFailed = FALSE,
                    !.pc = "fetch"]

\* a channel loop that does not look for a retention of -1
EnterChannel_NoNeverCheck(r, cfg, t) ==
  LET catName == CurCat(r)
      chanName == CurChan(r)
      res == getRetention(cfg, catName, chanName)
  IN IF chanName \notin r.allowed
     THEN Skipped(r, [r EXCEPT !.totalSkipped = @ + 1, !.chi = @ + 1], "unlisted", Undef)
     ELSE IF r.chanFilter # "" /\ chanName # r.chanFilter
     THEN [r EXCEPT !.chi = @ + 1]
     ELSE [r EXCEPT !.totalProcessed = @ + 1,
                    !.retention = res.ret,
                    !.retentionSource = getRetentionSource(cfg, catName, chanName),
                    !.chanNow = t, !.maxMessages = cfg.maxMessages,
                    !.bulkDeletable = <<>>, !.oldDeletable = <<>>, !.oldToDelete = <<>>,
                    !.lastId = 0, !.fetched = 0, !.deleted = 0, !.bi = 0, !.oi = 0,
                    !.delFailed = FALSE,
                    !.pc = "fetch"]

\* the channel loop's checks before a channel is scanned
EnterChannel(r, cfg, t) ==
  LET catName == CurCat(r)
      chanName == CurChan(r)
      res == getRetention(cfg, catName, chanName)
  IN IF chanName \notin r.allowed
     THEN Skipped(r, [r EXCEPT !.totalSkipped = @ + 1, !.chi = @ + 1], "unlisted", Undef)
     ELSE IF r.chanFilter # "" /\ chanName # r.chanFilter
     THEN [r EXCEPT !.chi = @ + 1]
     ELSE IF res.ret = Num(-1)
     THEN Skipped(r, [r EXCEPT !.totalProcessed = @ + 1,
                               !.channelResults = Append(@, SkippedResult(chanName)),
                               !.chi = @ + 1], "never", res.ret)
     ELSE [r EXCEPT !.totalProcessed = @ + 1,
                    !.retention = res.ret,
                    !.retentionSource = getRetentionSource(cfg, catName, chanName),
                    !.chanNow = t, !.maxMessages = cfg.maxMessages,
                    !.bulkDeletable = <<>>, !.oldDeletable = <<>>, !.oldToDelete = <<>>,
                    !.lastId = 0, !.fetched = 0, !.deleted = 0, !.bi = 0, !.oi = 0,
                    !.delFailed = FALSE,
                    !.pc = "fetch"]

RECURSIVE Advance(_, _, _, _)
\* the synchronous code of the two loops, from a loop head to the next await
Advance(rIn, cfg, t, cancelled) ==
  CHOOSE out \in {(
      IF r.pc = "catLoop"
      THEN IF r.ci > Len(r.catMap) \/ cancelled THEN Summary(r, cfg, cancelled)
           ELSE Advance(EnterCategory(r, cfg), cfg, t, cancelled)
      ELSE IF r.pc = "chanLoop"
      THEN IF r.chi > Len(CurChannels(r)) \/ cancelled
           THEN Advance(CatEnd(r), cfg, t, cancelled)
           ELSE Advance(EnterChannel(r, cfg, t), cfg, t, cancelled)
      ELSE r
    ) : r \in {rIn}} : TRUE

\* runCleanup after autoDiscoverChannels: build the category map, enter the loops
StartLoops(r, cfg, g, order, t, cancelled) ==
  Advance([r EXCEPT !.catMap = BuildCategoryMap(g, order), !.ci = 1, !.chi = 0,
                    !.pc = "catLoop"], cfg, t, cancelled)

\* the record handed to persistStats and to the cleanup-complete event
RunStats(r, t) ==
  [present |-> TRUE, timestamp |-> t, totalProcessed |-> r.totalProcessed,
   totalPurged |-> r.totalPurged, totalErrors |-> r.totalErrors, dryRun |-> r.dry,
   trigger |-> r.trigger, cancelled |-> r.cancelled, categories |-> r.categoryStats]

(***************************************************************************)
(* Full sync.                                                              *)
(***************************************************************************)
RECURSIVE OverridesOf(_, _)
\* existingOverrides: a Map filled in list order, a later entry replaces an earlier one
OverridesOf(entries, acc) ==
  IF entries = <<>> THEN acc
  ELSE LET e == Head(entries)
       IN OverridesOf(Tail(entries),
            IF e.ov # Undef
            THEN [nm \in DOMAIN acc \cup {e.name} |-> IF nm = e.name THEN e.ov ELSE acc[nm]]
            ELSE acc)

\* a sync that assigns the rebuilt list and counts it without comparing
SyncCategory_AlwaysRewrites(cat, channels) ==
  LET sortedChannels == SortNames(SeqToSet(channels))
      inline == OverridesOf(cat.channels, EmptyMap)
      migrate == cat.overrides.present
      existingOverrides == IF migrate THEN OverridesOf(cat.overrides.map, inline) ELSE inline
      discordSet == SeqToSet(sortedChannels)
      newList == [i \in 1..Len(sortedChannels) |->
                    IF sortedChannels[i] \in DOMAIN existingOverrides
                    THEN Override(sortedChannels[i], existingOverrides[sortedChannels[i]])
                    ELSE Plain(sortedChannels[i])]
      dropped == Cardinality(DOMAIN existingOverrides \ discordSet)
  IN [cat |-> [cat EXCEPT !.overrides = IF migrate THEN [present |-> FALSE, map |-> <<>>] ELSE @,
                          !.channels = newList],
      changes |-> (IF migrate THEN 1 ELSE 0) + dropped + 1]

\* syncConfig for one category that is already configured
SyncCategory(cat, channels) ==
  LET sortedChannels == SortNames(SeqToSet(channels))
      inline == OverridesOf(cat.channels, EmptyMap)
      migrate == cat.overrides.present
      existingOverrides == IF migrate THEN OverridesOf(cat.overrides.map, inline) ELSE inline
      discordSet == SeqToSet(sortedChannels)
      newList == [i \in 1..Len(sortedChannels) |->
                    IF sortedChannels[i] \in DOMAIN existingOverrides
                    THEN Override(sortedChannels[i], existingOverrides[sortedChannels[i]])
                    ELSE Plain(sortedChannels[i])]
      dropped == Cardinality(DOMAIN existingOverrides \ discordSet)
      listChanged == cat.channels # newList
  IN [cat |-> [cat EXCEPT !.overrides = IF migrate THEN [present |-> FALSE, map |-> <<>>] ELSE @,
                          !.channels = IF listChanged THEN newList ELSE @],
      changes |-> (IF migrate THEN 1 ELSE 0) + dropped + (IF listChanged THEN 1 ELSE 0)]

RECURSIVE SyncFrom(_, _, _)
\* the loop of syncConfig over discoveredMap
SyncFrom(d, g, order) ==
  IF order = <<>> THEN d
  ELSE LET catName == Head(order)
           channels == g[catName]
       IN IF channels = <<>> THEN SyncFrom(d, g, Tail(order))
          ELSE IF catName \notin DOMAIN d.cfg.categories
          THEN SyncFrom(
                 [d EXCEPT !.cfg.categories =
                              [c \in DOMAIN @ \cup {catName} |->
                                 IF c = catName THEN NewCategory(d.cfg, channels) ELSE @[c]],
                           !.changes = @ + 1],
                 g, Tail(order))
          ELSE LET res == SyncCategory(d.cfg.categories[catName], channels)
               IN SyncFrom([d EXCEPT !.cfg.categories[catName] = res.cat,
                                     !.changes = @ + res.changes],
                           g, Tail(order))

\* a sync that only adds: categories the platform no longer has stay configured
syncConfig_KeepsGone(cfg, g, order) ==
  LET d == SyncFrom([cfg |-> cfg, changes |-> 0], g, order)
  IN [cfg |-> d.cfg, changes |-> d.changes]

\* syncConfig after guild.channels.fetch(): the new configuration and the change count
syncConfig(cfg, g, order) ==
  LET discovered == {c \in SeqToSet(order) : g[c] # <<>>}
      d == SyncFrom([cfg |-> cfg, changes |-> 0], g, order)
      gone == DOMAIN d.cfg.categories \ discovered
  IN [cfg |-> [d.cfg EXCEPT !.categories = [c \in DOMAIN @ \ gone |-> @[c]]],
      changes |-> d.changes + Cardinality(gone)]

(***************************************************************************)
(* Scheduler.                                                              *)
(***************************************************************************)
NoJob == [active |-> FALSE, schedule |-> "", timezone |-> ""]

\* cron.validate(schedule)
CronValid(schedule) == schedule # "bad"

\* setupCron: the job after the call
setupCron(cfg) ==
  IF ~cfg.scheduleEnabled THEN NoJob
  ELSE IF ~CronValid(cfg.schedule) THEN NoJob
  ELSE [active |-> TRUE, schedule |-> cfg.schedule, timezone |-> cfg.timezone]

(***************************************************************************)
(* Initial state: the process has loaded config.yaml, logged in and run    *)
(* setupCron (clientReady); no stats file exists yet.                      *)
(***************************************************************************)
AlphaCategory ==
  [enabled |-> Bool(TRUE), default |-> Undef, deleteOld |-> Undef,
   overrides |-> [present |-> FALSE, map |-> <<>>],
   channels |-> <<Override("archive", Num(-1)), Plain("general")>>]

BetaCategory(enabled) ==
  [enabled |-> enabled, default |-> Num(0), deleteOld |-> Undef,
   overrides |-> [present |-> FALSE, map |-> <<>>],
   channels |-> <<Plain("logs")>>]

InitialFiles ==
  {[globalDefault |-> Num(7), dryRun |-> FALSE, maxMessages |-> 5, maxOld |-> 1,
    skipPinned |-> sp, discoveryComplete |-> FALSE,
    webhookCleanup |-> TRUE, webhookInfo |-> TRUE,
    scheduleEnabled |-> TRUE, schedule |-> "s1", timezone |-> "tz1",
    categories |-> [alpha |-> AlphaCategory, beta |-> BetaCategory(en)]] :
   sp \in BOOLEAN, en \in {Bool(TRUE), Str}}

\* the messages every channel holds at the start: id, createdAt, pinned
InitialMessages ==
  {[id |-> 1, createdAt |-> StartDay - 15, pinned |-> TRUE],
   [id |-> 2, createdAt |-> StartDay - 14, pinned |-> FALSE],
   [id |-> 3, createdAt |-> StartDay - 7, pinned |-> TRUE],
   [id |-> 4, createdAt |-> StartDay - 2, pinned |-> FALSE],
   [id |-> 5, createdAt |-> StartDay - 1, pinned |-> FALSE]}

NoResolution == [done |-> FALSE, cat |-> "", chan |-> "", ret |-> Undef, warn |-> FALSE, source |-> ""]
NoSync == [pc |-> "idle"]
\* no temporary file exists and no write is under way
NoTmpWrite == [pc |-> "idle", target |-> "", left |-> FALSE]

InitCommon ==
  /\ guildPresent = TRUE
  /\ store = [ch \in ChanNames |-> InitialMessages]
  /\ now = StartDay
  /\ cleanupRunning = FALSE
  /\ cleanupCancelled = FALSE
  /\ syncRunning = FALSE
  /\ run = IdleRun
  /\ sync = NoSync
  /\ stats = NoStats
  /\ resolved = NoResolution
  /\ fetchLog = {}
  /\ deleteLog = {}
  /\ skipLog = {}
  /\ used = [runs |-> 0, events |-> 0]
  /\ lastStep = "done"
  /\ tmpFile = NoTmpWrite

Init ==
  /\ \E f \in InitialFiles :
       /\ disk = [ok |-> TRUE, data |-> f]
       /\ config = NormalizeConfig(f)
  /\ cronJob = setupCron(config)
  /\ InitCommon

\* one more event of the environment, within the bound
CountEvent ==
  /\ used.events < MaxEvents
  /\ used' = [used EXCEPT !.events = @ + 1]

(***************************************************************************)
(* History of fetches and deletions.                                       *)
(***************************************************************************)
FetchEntry(r, cfg) ==
  [cat |-> CurCat(r), chan |-> CurChan(r), retention |-> r.retention, dry |-> r.dry,
   enabledAtEntry |-> r.enabledAtEntry, enabledNow |-> isEnabledIn(cfg, CurCat(r)),
   listedAtEntry |-> CurChan(r) \in r.allowed]

DeleteEntry(r, msg, via) ==
  [cat |-> CurCat(r), chan |-> CurChan(r), retention |-> r.retention, dry |-> r.dry,
   enabledAtEntry |-> r.enabledAtEntry, enabledNow |-> r.enabledAtCall,
   listedAtEntry |-> CurChan(r) \in r.allowed,
   id |-> msg.id, createdAt |-> msg.createdAt, pinned |-> msg.pinned,
   skipPinned |-> msg.skipPinned, chanNow |-> r.chanNow, via |-> via, runNo |-> r.runNo,
   forceDryRun |-> r.forceDryRun, forceLive |-> r.forceLive,
   configDryRun |-> r.configDryRun]

StoredMessage(msg) == [id |-> msg.id, createdAt |-> msg.createdAt, pinned |-> msg.pinned]

(***************************************************************************)
(* runCleanup.                                                             *)
(***************************************************************************)
\* a run whose exception skips the release of the flag
RunAborts_NoFinally ==
  /\ cleanupRunning' = cleanupRunning
  /\ run' = IdleRun
  /\ skipLog' = skipLog \cup run.skips
  /\ UNCHANGED <<stats, fetchLog, tmpFile>>

\* the finally block, reached without persistStats: an exception or the early return
RunAborts ==
  /\ cleanupRunning' = FALSE
  /\ run' = IdleRun
  /\ skipLog' = skipLog \cup run.skips
  /\ UNCHANGED <<stats, fetchLog, tmpFile>>

\* the call continues to its next await, or to its end: persistStats and finally
Continue(rNext, cfg) ==
  \E r2 \in {rNext} :
    /\ skipLog' = skipLog \cup r2.skips
    /\ fetchLog' = IF r2.pc = "fetch" THEN fetchLog \cup {FetchEntry(r2, cfg)} ELSE fetchLog
    /\ IF r2.pc = "end"
       THEN /\ stats' = persistStats(stats, RunStats(r2, now))
            /\ cleanupRunning' = FALSE
            /\ run' = IdleRun
       ELSE /\ run' = [r2 EXCEPT !.skips = {},
                                  !.enabledAtCall =
                                     IF r2.pc \in {"fetch", "bulkDel", "oldDel"}
                                     THEN isEnabledIn(cfg, CurCat(r2)) ELSE @,
                                  !.callAt =
                                     IF r2.pc \in {"fetch", "bulkDel", "oldDel"}
                                     THEN now ELSE @]
            /\ UNCHANGED <<stats, cleanupRunning, tmpFile>>

\* a guard placed after the reset of the cancellation flag
RunCleanupRejected_ResetsCancel ==
  /\ cleanupRunning
  /\ lastStep' = "rejected"
  /\ cleanupCancelled' = FALSE
  /\ UNCHANGED <<config, disk, guildPresent, store, now, cleanupRunning,
                 syncRunning, cronJob, run, sync, stats, resolved, fetchLog, deleteLog,
                 skipLog, used, tmpFile>>

\* a call that finds cleanupRunning set: log a warning and return
RunCleanupRejected ==
  /\ cleanupRunning
  /\ lastStep' = "rejected"
  /\ UNCHANGED <<config, disk, guildPresent, store, now, cleanupRunning, cleanupCancelled,
                 syncRunning, cronJob, run, sync, stats, resolved, fetchLog, deleteLog,
                 skipLog, used, tmpFile>>

\* an accepted call that leaves the cancellation flag as it finds it
RunCleanupAccepted_KeepsCancel(forceDryRun, forceLive, categoryFilter, channelFilter) ==
  /\ ~cleanupRunning
  /\ used.runs < MaxRuns
  /\ used' = [used EXCEPT !.runs = @ + 1]
  /\ cleanupCancelled' = cleanupCancelled
  /\ config' = loadConfig(config, disk)
  /\ IF ~guildPresent
     THEN \* log, emit 'cleanup-complete' with the error, return through finally
          /\ lastStep' = "guildNotFound"
          /\ cleanupRunning' = FALSE
          /\ run' = IdleRun
     ELSE /\ lastStep' = "done"
          /\ cleanupRunning' = TRUE
          /\ run' = [IdleRun EXCEPT
                       !.pc = "fetchChannels",
                       !.dry = IF forceLive THEN FALSE ELSE (config'.dryRun \/ forceDryRun),
                       !.catFilter = categoryFilter, !.chanFilter = channelFilter,
                       !.startTime = now, !.runNo = used.runs + 1,
                       !.forceDryRun = forceDryRun, !.forceLive = forceLive,
                       !.configDryRun = config'.dryRun,
                       !.startEnabled = {c \in DOMAIN config'.categories :
                                           isEnabledIn(config', c)}]
  /\ UNCHANGED <<disk, guildPresent, store, now, syncRunning, cronJob, sync, stats,
                 resolved, fetchLog, deleteLog, skipLog, tmpFile>>

\* an accepted call, up to its first await (guild.channels.fetch) or its early return
RunCleanupAccepted(forceDryRun, forceLive, categoryFilter, channelFilter) ==
  /\ ~cleanupRunning
  /\ used.runs < MaxRuns
  /\ used' = [used EXCEPT !.runs = @ + 1]
  /\ cleanupCancelled' = FALSE
  /\ config' = loadConfig(config, disk)
  /\ IF ~guildPresent
     THEN \* log, emit 'cleanup-complete' with the error, return through finally
          /\ lastStep' = "guildNotFound"
          /\ cleanupRunning' = FALSE
          /\ run' = IdleRun
     ELSE /\ lastStep' = "done"
          /\ cleanupRunning' = TRUE
          /\ run' = [IdleRun EXCEPT
                       !.pc = "fetchChannels",
                       !.dry = IF forceLive THEN FALSE ELSE (config'.dryRun \/ forceDryRun),
                       !.catFilter = categoryFilter, !.chanFilter = channelFilter,
                       !.startTime = now, !.runNo = used.runs + 1,
                       !.forceDryRun = forceDryRun, !.forceLive = forceLive,
                       !.configDryRun = config'.dryRun,
                       !.startEnabled = {c \in DOMAIN config'.categories :
                                           isEnabledIn(config', c)}]
  /\ UNCHANGED <<disk, guildPresent, store, now, syncRunning, cronJob, sync, stats,
                 resolved, fetchLog, deleteLog, skipLog, tmpFile>>

runCleanup(forceDryRun, forceLive, categoryFilter, channelFilter) ==
  \/ RunCleanupRejected
  \/ RunCleanupAccepted(forceDryRun, forceLive, categoryFilter, channelFilter)

\* the cron callback
CronTick ==
  /\ cronJob.active
  /\ runCleanup(FALSE, FALSE, "", "")

\* the filters the dashboard sends: none, one category, one channel
ApiFilters == {<<"", "">>, <<"beta", "">>, <<"", "logs">>}

\* POST /api/cleanup/run and POST /api/cleanup/dryrun
ApiRejected ==
  /\ cleanupRunning \/ syncRunning
  /\ lastStep' = "rejected"
  /\ UNCHANGED <<config, disk, guildPresent, store, now, cleanupRunning, cleanupCancelled,
                 syncRunning, cronJob, run, sync, stats, resolved, fetchLog, deleteLog,
                 skipLog, used, tmpFile>>

ApiRun ==
  \/ ApiRejected
  \/ /\ ~(cleanupRunning \/ syncRunning)
     /\ \E f \in ApiFilters : runCleanup(FALSE, FALSE, f[1], f[2])

ApiDryRun ==
  \/ ApiRejected
  \/ /\ ~(cleanupRunning \/ syncRunning)
     /\ runCleanup(TRUE, FALSE, "", "")

\* cancelCleanup()
CancelCleanup ==
  /\ cleanupRunning
  /\ CountEvent
  /\ cleanupCancelled' = TRUE
  /\ lastStep' = "done"
  /\ UNCHANGED <<config, disk, guildPresent, store, now, cleanupRunning, syncRunning,
                 cronJob, run, sync, stats, resolved, fetchLog, deleteLog, skipLog,
                 tmpFile>>

\* cancelCleanup() while no cleanup is running: returns false
CancelRefused ==
  /\ ~cleanupRunning
  /\ CountEvent
  /\ lastStep' = "notRunning"
  /\ UNCHANGED <<config, disk, guildPresent, store, now, cleanupRunning, cleanupCancelled,
                 syncRunning, cronJob, run, sync, stats, resolved, fetchLog, deleteLog,
                 skipLog, tmpFile>>

\* a run that builds its loops on the configuration as reloaded and lets
\* discovery add to it afterwards
ChannelsFetched_LoopsFirst ==
  /\ run.pc = "fetchChannels"
  /\ lastStep' = "done"
  /\ LET d == autoDiscoverChannels(config, GuildCategories, GuildOrder)
         r == [run EXCEPT !.eventsAtDiscovery = used.events]
     IN /\ config' = d.cfg
        /\ disk' = IF d.write THEN configForDisk(d.cfg) ELSE disk
        /\ Continue(StartLoops(r, config, GuildCategories, GuildOrder, now,
                               cleanupCancelled), config)
  /\ UNCHANGED <<guildPresent, store, now, cleanupCancelled, syncRunning, cronJob, sync,
                 resolved, deleteLog, used, tmpFile>>

\* guild.channels.fetch() resolved: autoDiscoverChannels, then into the loops
ChannelsFetched ==
  /\ run.pc = "fetchChannels"
  /\ \E g \in {GuildCategories}, order \in {GuildOrder} :
     \E d \in {autoDiscoverChannels(config, g, order)},
        r \in {[run EXCEPT !.eventsAtDiscovery = used.events]} :
        /\ config' = d.cfg
        /\ lastStep' = IF d.write THEN "discoveryWrite" ELSE "done"
        /\ disk' = IF d.write THEN configForDisk(d.cfg) ELSE disk
        /\ IF d.notify /\ d.cfg.webhookInfo
           THEN Continue([r EXCEPT !.pc = "discoverNotify"], d.cfg)
           ELSE Continue(StartLoops(r, d.cfg, g, order, now, cleanupCancelled), d.cfg)
  /\ UNCHANGED <<guildPresent, store, now, cleanupCancelled, syncRunning, cronJob, sync,
                 resolved, deleteLog, used, tmpFile>>

\* guild.channels.fetch() rejected: the exception leaves runCleanup through finally
ChannelsFetchThrows ==
  /\ run.pc = "fetchChannels"
  /\ CountEvent
  /\ lastStep' = "done"
  /\ RunAborts
  /\ UNCHANGED <<config, disk, guildPresent, store, now, cleanupCancelled, syncRunning,
                 cronJob, sync, resolved, deleteLog, tmpFile>>

\* the configuration write of autoDiscoverChannels throws (writeFileSync, renameSync)
DiscoveryWriteThrows ==
  /\ run.pc = "fetchChannels"
  /\ CountEvent
  /\ lastStep' = "done"
  /\ LET d == autoDiscoverChannels(config, GuildCategories, GuildOrder)
     IN /\ d.write
        /\ config' = d.cfg
  /\ RunAborts
  /\ UNCHANGED <<disk, guildPresent, store, now, cleanupCancelled, syncRunning, cronJob,
                 sync, resolved, deleteLog, tmpFile>>

\* sendDiscoveryNotification settled (it catches its own errors)
DiscoverNotified ==
  /\ run.pc = "discoverNotify"
  /\ lastStep' = "done"
  /\ Continue(StartLoops(run, config, GuildCategories, GuildOrder, now, cleanupCancelled),
              config)
  /\ UNCHANGED <<config, disk, guildPresent, store, now, cleanupCancelled, syncRunning,
                 cronJob, sync, resolved, deleteLog, used, tmpFile>>

\* channel.messages.fetch(options) resolved with a page
FetchResolves ==
  /\ run.pc = "fetch"
  /\ lastStep' = "done"
  /\ \E page \in {FetchPage(store[CurChan(run)], run.lastId, FetchLimit(run))} :
        Continue(AfterPage(run, config, page, cleanupCancelled), config)
  /\ UNCHANGED <<config, disk, guildPresent, store, now, cleanupCancelled, syncRunning,
                 cronJob, sync, resolved, deleteLog, used, tmpFile>>

\* channel.messages.fetch(options) rejected: the channel's catch block
FetchThrows ==
  /\ run.pc = "fetch"
  /\ CountEvent
  /\ lastStep' = "done"
  /\ Continue(ChannelError(run), config)
  /\ UNCHANGED <<config, disk, guildPresent, store, now, cleanupCancelled, syncRunning,
                 cronJob, sync, resolved, deleteLog, tmpFile>>

\* the batch the bulk loop is at: bulkDeletable.slice(i, i + 100)
CurBatch(r) == SubSeq(r.bulkDeletable, r.bi + 1, Min(r.bi + BulkBatchSize, Len(r.bulkDeletable)))

\* batch[0].delete() or channel.bulkDelete(batch, true) resolved
BulkResolves ==
  /\ run.pc = "bulkDel"
  /\ lastStep' = "done"
  /\ LET batch == CurBatch(run)
         single == Len(batch) = 1
         \* filterOld: bulkDelete drops the messages that are 14 days old at the call
         gone == IF single THEN SeqToSet(batch)
                 ELSE {m \in SeqToSet(batch) : run.callAt - m.createdAt < BulkDeleteDays}
         r1 == [run EXCEPT !.deleted = @ + Cardinality(gone), !.bi = @ + BulkBatchSize]
         r2 == IF r1.bi < Len(r1.bulkDeletable) THEN r1
               ELSE StartOld(r1, config, cleanupCancelled)
     IN /\ store' = [store EXCEPT ![CurChan(run)] = @ \ {StoredMessage(m) : m \in gone}]
        /\ deleteLog' = deleteLog \cup
             {DeleteEntry(run, m, IF single THEN "single" ELSE "bulk") : m \in gone}
        /\ Continue(r2, config)
  /\ UNCHANGED <<config, disk, guildPresent, now, cleanupCancelled, syncRunning,
                 cronJob, sync, resolved, used, tmpFile>>

\* the delete call of the bulk loop rejected: the channel's catch block
BulkThrows ==
  /\ run.pc = "bulkDel"
  /\ CountEvent
  /\ lastStep' = "done"
  /\ Continue(ChannelError(run), config)
  /\ UNCHANGED <<config, disk, guildPresent, store, now, cleanupCancelled, syncRunning,
                 cronJob, sync, resolved, deleteLog, tmpFile>>

\* msg.delete() of an old message resolved, then await sleep(1200)
OldDelResolves ==
  /\ run.pc = "oldDel"
  /\ lastStep' = "done"
  /\ LET msg == run.oldToDelete[run.oi]
     IN /\ store' = [store EXCEPT ![CurChan(run)] = @ \ {StoredMessage(msg)}]
        /\ deleteLog' = deleteLog \cup {DeleteEntry(run, msg, "old")}
        /\ Continue([run EXCEPT !.deleted = @ + 1, !.pc = "oldSleep"], config)
  /\ UNCHANGED <<config, disk, guildPresent, now, cleanupCancelled, syncRunning,
                 cronJob, sync, resolved, used, tmpFile>>

\* msg.delete() of an old message rejected: a warning, then await sleep(1200)
OldDelThrows ==
  /\ run.pc = "oldDel"
  /\ CountEvent
  /\ lastStep' = "done"
  /\ Continue([run EXCEPT !.pc = "oldSleep", !.delFailed = TRUE], config)
  /\ UNCHANGED <<config, disk, guildPresent, store, now, cleanupCancelled, syncRunning,
                 cronJob, sync, resolved, deleteLog, tmpFile>>

\* sleep(1200) resolved: the next old message
OldSleepDone ==
  /\ run.pc = "oldSleep"
  /\ lastStep' = "done"
  /\ Continue(OldNext([run EXCEPT !.oi = @ + 1], config, cleanupCancelled), config)
  /\ UNCHANGED <<config, disk, guildPresent, store, now, cleanupCancelled, syncRunning,
                 cronJob, sync, resolved, deleteLog, used, tmpFile>>

\* loop heads that do not look at the cancellation flag
ChanSleepDone_IgnoresCancel ==
  /\ run.pc = "sleepChan"
  /\ lastStep' = "done"
  /\ Continue(Advance([run EXCEPT !.chi = @ + 1, !.pc = "chanLoop"], config, now, FALSE),
              config)
  /\ UNCHANGED <<config, disk, guildPresent, store, now, cleanupCancelled, syncRunning,
                 cronJob, sync, resolved, deleteLog, used, tmpFile>>

\* sleep(delayBetweenChannels) resolved: the next channel
ChanSleepDone ==
  /\ run.pc = "sleepChan"
  /\ lastStep' = "done"
  /\ Continue(Advance([run EXCEPT !.chi = @ + 1, !.pc = "chanLoop"], config, now,
                      cleanupCancelled), config)
  /\ UNCHANGED <<config, disk, guildPresent, store, now, cleanupCancelled, syncRunning,
                 cronJob, sync, resolved, deleteLog, used, tmpFile>>

\* sendWebhook settled (it catches its own errors): persistStats, finally
WebhookDone ==
  /\ run.pc = "webhook"
  /\ lastStep' = "done"
  /\ Continue([run EXCEPT !.pc = "end"], config)
  /\ UNCHANGED <<config, disk, guildPresent, store, now, cleanupCancelled, syncRunning,
                 cronJob, sync, resolved, deleteLog, used, tmpFile>>

\* an exception outside the per-channel try block (webhook or stats code)
WebhookThrows ==
  /\ run.pc = "webhook"
  /\ CountEvent
  /\ lastStep' = "done"
  /\ RunAborts
  /\ UNCHANGED <<config, disk, guildPresent, store, now, cleanupCancelled, syncRunning,
                 cronJob, sync, resolved, deleteLog, tmpFile>>

(***************************************************************************)
(* POST /api/cleanup/sync.                                                 *)
(***************************************************************************)
SyncRejected ==
  /\ cleanupRunning \/ syncRunning
  /\ lastStep' = "rejected"
  /\ UNCHANGED <<config, disk, guildPresent, store, now, cleanupRunning, cleanupCancelled,
                 syncRunning, cronJob, run, sync, stats, resolved, fetchLog, deleteLog,
                 skipLog, used, tmpFile>>

\* accepted: syncRunning = true, syncConfig up to guild.channels.fetch()
SyncAccepted ==
  /\ ~(cleanupRunning \/ syncRunning)
  /\ lastStep' = "done"
  /\ IF ~guildPresent
     THEN /\ syncRunning' = FALSE
          /\ sync' = NoSync
     ELSE /\ syncRunning' = TRUE
          /\ sync' = [pc |-> "fetchChannels"]
  /\ UNCHANGED <<config, disk, guildPresent, store, now, cleanupRunning, cleanupCancelled,
                 cronJob, run, stats, resolved, fetchLog, deleteLog, skipLog, used,
                 tmpFile>>

ApiSync == SyncRejected \/ SyncAccepted

\* a route that clears its guard only on success
SyncEnds_NoFinally ==
  /\ syncRunning' = syncRunning
  /\ sync' = NoSync

\* the finally block of the route
SyncEnds ==
  /\ syncRunning' = FALSE
  /\ sync' = NoSync

\* guild.channels.fetch() resolved: reconcile, write if changed, respond
SyncFetched ==
  /\ sync.pc = "fetchChannels"
  /\ lastStep' = "done"
  /\ LET d == syncConfig(config, GuildCategories, GuildOrder)
     IN /\ config' = d.cfg
        /\ disk' = IF d.changes > 0 THEN configForDisk(d.cfg) ELSE disk
  /\ SyncEnds
  /\ UNCHANGED <<guildPresent, store, now, cleanupRunning, cleanupCancelled, cronJob, run,
                 stats, resolved, fetchLog, deleteLog, skipLog, used, tmpFile>>

\* guild.channels.fetch() rejected: the route answers 500
SyncThrows ==
  /\ sync.pc = "fetchChannels"
  /\ lastStep' = "done"
  /\ SyncEnds
  /\ UNCHANGED <<config, disk, guildPresent, store, now, cleanupRunning, cleanupCancelled,
                 cronJob, run, stats, resolved, fetchLog, deleteLog, skipLog, used,
                 tmpFile>>

(***************************************************************************)
(* PATCH /api/config/category/:name.                                       *)
(***************************************************************************)
NoList == [present |-> FALSE, list |-> <<>>]

\* request bodies the dashboard sends
PatchInputs ==
  {[enabled |-> Bool(FALSE), default |-> Undef, channels |-> NoList],
   [enabled |-> Bool(TRUE), default |-> Num(-2), channels |-> NoList],
   [enabled |-> Undef, default |-> Undef, channels |-> [present |-> TRUE, list |-> <<>>]]}

\* "each entry must be a string or a single-key object with integer value"
ValidEntries(list) ==
  \A i \in 1..Len(list) :
    list[i].ov = Undef \/ (IsInteger(list[i].ov) /\ list[i].ov.n >= -1)

\* the category after the handler, and whether the handler reached its file write
PatchedCategory(cat, u) ==
  LET c1 == IF u.enabled # Undef THEN [cat EXCEPT !.enabled = Bool(Truthy(u.enabled))] ELSE cat
      badDefault == u.default # Undef
                    /\ (~IsNumber(u.default) \/ ~IsInteger(u.default) \/ LessThanMinusOne(u.default))
      c2 == IF u.default # Undef /\ ~badDefault THEN [c1 EXCEPT !.default = u.default] ELSE c1
      badList == u.channels.present /\ ~ValidEntries(u.channels.list)
      c3 == IF u.channels.present /\ ~badList THEN [c2 EXCEPT !.channels = u.channels.list] ELSE c2
  IN IF badDefault THEN [cat |-> c1, written |-> FALSE]
     ELSE IF badList THEN [cat |-> c2, written |-> FALSE]
     ELSE [cat |-> c3, written |-> TRUE]

PatchCategory ==
  /\ CountEvent
  /\ \E catName \in DOMAIN config.categories, u \in PatchInputs :
       LET p == PatchedCategory(config.categories[catName], u)
       IN /\ lastStep' = IF p.written THEN "done" ELSE "badRequest"
          /\ config' = [config EXCEPT !.categories[catName] = p.cat]
          /\ disk' = IF p.written THEN configForDisk(config') ELSE disk
  /\ UNCHANGED <<guildPresent, store, now, cleanupRunning, cleanupCancelled, syncRunning,
                 cronJob, run, sync, stats, resolved, fetchLog, deleteLog, skipLog,
                 tmpFile>>

(***************************************************************************)
(* The environment: the clock, the guild, the configuration file.          *)
(***************************************************************************)
Tick ==
  /\ CountEvent
  /\ now' = now + 1
  /\ lastStep' = "done"
  /\ UNCHANGED <<config, disk, guildPresent, store, cleanupRunning, cleanupCancelled,
                 syncRunning, cronJob, run, sync, stats, resolved, fetchLog, deleteLog,
                 skipLog, tmpFile>>

\* the bot is removed from the guild
GuildRemoved ==
  /\ guildPresent
  /\ run.pc = "idle" /\ sync.pc = "idle"
  /\ CountEvent
  /\ guildPresent' = FALSE
  /\ lastStep' = "done"
  /\ UNCHANGED <<config, disk, store, now, cleanupRunning, cleanupCancelled, syncRunning,
                 cronJob, run, sync, stats, resolved, fetchLog, deleteLog, skipLog,
                 tmpFile>>

\* config.yaml is edited by hand into something yaml.load rejects
CorruptFile ==
  /\ disk.ok
  /\ run.pc = "idle" /\ sync.pc = "idle"
  /\ disk' = [disk EXCEPT !.ok = FALSE]
  /\ lastStep' = "done"
  /\ UNCHANGED <<config, guildPresent, store, now, cleanupRunning, cleanupCancelled,
                 syncRunning, cronJob, run, sync, stats, resolved, fetchLog, deleteLog,
                 skipLog, used, tmpFile>>

\* the requests that start a cleanup run
Trigger ==
  \/ CronTick
  \/ ApiRun
  \/ ApiDryRun

\* the awaits of a run settling without an exception
RunStep ==
  \/ ChannelsFetched
  \/ FetchResolves
  \/ BulkResolves
  \/ OldDelResolves
  \/ OldSleepDone
  \/ ChanSleepDone
  \/ WebhookDone

\* a call of a run failing
Failure ==
  \/ ChannelsFetchThrows
  \/ DiscoveryWriteThrows
  \/ FetchThrows
  \/ BulkThrows
  \/ OldDelThrows
  \/ WebhookThrows

\* cleanup runs under dashboard updates and the passing of time.  Every reload
\* succeeds here, so each discovery pass is a first pass and never notifies.
Next ==
  \/ Trigger
  \/ RunStep
  \/ PatchCategory
  \/ Tick

Spec == Init /\ [][Next]_vars

\* cleanup runs and full syncs in flight, with every way a run can end.  Every
\* reload succeeds here too.
NextFlight ==
  \/ Trigger
  \/ RunStep
  \/ Failure
  \/ CancelCleanup
  \/ ApiSync
  \/ SyncFetched
  \/ SyncThrows
  \/ GuildRemoved

SpecFlight == Init /\ [][NextFlight]_vars

\* every step of the model
NextAll == Next \/ NextFlight \/ DiscoverNotified \/ CorruptFile

SpecAll == Init /\ [][NextAll]_vars

(***************************************************************************)
(* Retention resolution on its own: every combination of override,         *)
(* category default and global default.                                    *)
(***************************************************************************)
RetentionValues ==
  {Undef, Null, NaN, Str, Bool(TRUE), Num(-2), Num(-1), Num(0), Num(14), Frac(3), Frac(-2)}

\* globalDefault as written in config.yaml, before loadConfig validates it
GlobalDefaults == {Undef, Null, NaN, Str, Frac(3), Num(-2), Num(-1), Num(0), Num(7)}

\* shapes of the _channels list around the entry of "general"
ChannelLists(v) ==
  {<<>>,
   <<Override("general", v)>>,
   <<Override("archive", Num(3)), Override("general", v)>>,
   <<Plain("general"), Override("general", v)>>}

RetentionFiles ==
  {[globalDefault |-> g, dryRun |-> FALSE, maxMessages |-> 5, maxOld |-> 1,
    skipPinned |-> TRUE, discoveryComplete |-> FALSE,
    webhookCleanup |-> FALSE, webhookInfo |-> FALSE,
    scheduleEnabled |-> FALSE, schedule |-> "s1", timezone |-> "tz1",
    categories |-> [alpha |-> [enabled |-> Bool(TRUE), default |-> d, deleteOld |-> Undef,
                               overrides |-> [present |-> FALSE, map |-> <<>>],
                               channels |-> l]]] :
   g \in GlobalDefaults, d \in RetentionValues,
   l \in UNION {ChannelLists(v) : v \in RetentionValues}}

InitRetention ==
  /\ \E f \in RetentionFiles :
       /\ disk = [ok |-> TRUE, data |-> f]
       /\ config = NormalizeConfig(f)
  /\ cronJob = setupCron(config)
  /\ InitCommon

\* one call each of getRetention and getRetentionSource
Resolve ==
  /\ \E categoryName \in CatNames, channelName \in {"general", "archive"} :
       LET res == getRetention(config, categoryName, channelName)
       IN resolved' = [done |-> TRUE, cat |-> categoryName, chan |-> channelName,
                       ret |-> res.ret, warn |-> res.warn,
                       source |-> getRetentionSource(config, categoryName, channelName)]
  /\ lastStep' = "done"
  /\ UNCHANGED <<config, disk, guildPresent, store, now, cleanupRunning, cleanupCancelled,
                 syncRunning, cronJob, run, sync, stats, fetchLog, deleteLog, skipLog, used,
                 tmpFile>>

NextRetention == Resolve

SpecRetention == InitRetention /\ [][NextRetention]_vars

(***************************************************************************)
(* One channel after another: modes, caps and the 14-day boundary.         *)
(***************************************************************************)
\* the old-delete caps of the initial files
OldCaps == {0, 1, 2}

ChannelFiles ==
  {[globalDefault |-> Num(7), dryRun |-> dr, maxMessages |-> 5, maxOld |-> mo,
    skipPinned |-> TRUE, discoveryComplete |-> FALSE,
    webhookCleanup |-> TRUE, webhookInfo |-> FALSE,
    scheduleEnabled |-> TRUE, schedule |-> "s1", timezone |-> "tz1",
    categories |-> [alpha |-> [AlphaCategory EXCEPT !.deleteOld = dold],
                    beta |-> BetaCategory(Bool(TRUE))]] :
   dr \in BOOLEAN, mo \in OldCaps, dold \in {Undef, Bool(FALSE)}}

\* messages around the 14-day boundary: id, createdAt, pinned
ChannelMessages ==
  {[id |-> 1, createdAt |-> StartDay - 15, pinned |-> FALSE],
   [id |-> 2, createdAt |-> StartDay - 14, pinned |-> FALSE],
   [id |-> 3, createdAt |-> StartDay - 13, pinned |-> FALSE],
   [id |-> 4, createdAt |-> StartDay - 8, pinned |-> TRUE],
   [id |-> 5, createdAt |-> StartDay - 1, pinned |-> FALSE]}

InitChannel ==
  /\ \E f \in ChannelFiles :
       /\ disk = [ok |-> TRUE, data |-> f]
       /\ config = NormalizeConfig(f)
  /\ cronJob = setupCron(config)
  /\ guildPresent = TRUE
  /\ store = [ch \in ChanNames |-> ChannelMessages]
  /\ now = StartDay
  /\ cleanupRunning = FALSE
  /\ cleanupCancelled = FALSE
  /\ syncRunning = FALSE
  /\ run = IdleRun
  /\ sync = NoSync
  /\ stats = NoStats
  /\ resolved = NoResolution
  /\ fetchLog = {}
  /\ deleteLog = {}
  /\ skipLog = {}
  /\ used = [runs |-> 0, events |-> 0]
  /\ lastStep = "done"
  /\ tmpFile = NoTmpWrite

\* a caller of the exported runCleanup that forces the live mode
ForcedLiveRun == runCleanup(FALSE, TRUE, "", "")

NextChannel ==
  \/ CronTick
  \/ ApiDryRun
  \/ ForcedLiveRun
  \/ RunStep
  \/ Tick

SpecChannel == InitChannel /\ [][NextChannel]_vars

(***************************************************************************)
(* Runs whose calls fail, that are cancelled, or that find no guild.       *)
(***************************************************************************)
NextFailure ==
  \/ Trigger
  \/ RunStep
  \/ Failure
  \/ CancelCleanup
  \/ GuildRemoved

SpecFailure == Init /\ [][NextFailure]_vars

(***************************************************************************)
(* Discovery and reloads: files that lack categories or channels of the    *)
(* platform, dashboard writes, and a file that cannot be read.             *)
(***************************************************************************)
DiscoveryFile(cats) ==
  [globalDefault |-> Num(7), dryRun |-> FALSE, maxMessages |-> 5, maxOld |-> 1,
   skipPinned |-> TRUE, discoveryComplete |-> FALSE,
   webhookCleanup |-> TRUE, webhookInfo |-> TRUE,
   scheduleEnabled |-> TRUE, schedule |-> "s1", timezone |-> "tz1",
   categories |-> cats]

DiscoveryFiles ==
  {DiscoveryFile([alpha |-> AlphaCategory, beta |-> BetaCategory(Str)]),
   DiscoveryFile([alpha |-> [AlphaCategory EXCEPT
                               !.enabled = Bool(FALSE), !.default = Num(3),
                               !.channels = <<Override("general", Num(0))>>]]),
   DiscoveryFile([beta |-> [BetaCategory(Bool(TRUE)) EXCEPT !.channels = <<>>],
                  alpha |-> [AlphaCategory EXCEPT
                               !.channels = <<Plain("general"),
                                              Override("archive", Num(-1))>>]])}

\* PUT /api/config bodies: a full configuration, and one that passes the
\* handler's validation but makes loadConfig throw (a category that is null)
PutBodies ==
  {[ok |-> TRUE, data |-> DiscoveryFile([alpha |-> AlphaCategory])],
   [ok |-> FALSE, data |-> DiscoveryFile([alpha |-> AlphaCategory])]}

\* PUT /api/config: write the body to config.yaml, loadConfig(false), setupCron()
PutConfig ==
  /\ CountEvent
  /\ lastStep' = "put"
  /\ \E body \in PutBodies :
       /\ disk' = body
       /\ config' = loadConfig(config, body)
       /\ cronJob' = setupCron(config')
  /\ UNCHANGED <<guildPresent, store, now, cleanupRunning, cleanupCancelled, syncRunning,
                 run, sync, stats, resolved, fetchLog, deleteLog, skipLog, tmpFile>>

InitDiscovery ==
  /\ \E f \in DiscoveryFiles :
       /\ disk = [ok |-> TRUE, data |-> f]
       /\ config = NormalizeConfig(f)
  /\ cronJob = setupCron(config)
  /\ InitCommon

NextDiscovery ==
  \/ Trigger
  \/ RunStep
  \/ DiscoverNotified
  \/ PatchCategory
  \/ PutConfig
  \/ CorruptFile

SpecDiscovery == InitDiscovery /\ [][NextDiscovery]_vars

(***************************************************************************)
(* Runs during which the dashboard replaces the whole configuration by one *)
(* that lacks a category of the guild.                                     *)
(***************************************************************************)
\* PUT /api/config bodies without alpha, and without beta
ReplaceBodies ==
  {[ok |-> TRUE, data |-> DiscoveryFile([beta |-> BetaCategory(Bool(TRUE))])],
   [ok |-> TRUE, data |-> DiscoveryFile([alpha |-> AlphaCategory])]}

\* PUT /api/config with such a body: write it, loadConfig(false), setupCron()
PutWithoutCategory ==
  /\ CountEvent
  /\ lastStep' = "put"
  /\ \E body \in ReplaceBodies :
       /\ disk' = body
       /\ config' = loadConfig(config, body)
       /\ cronJob' = setupCron(config')
  /\ UNCHANGED <<guildPresent, store, now, cleanupRunning, cleanupCancelled, syncRunning,
                 run, sync, stats, resolved, fetchLog, deleteLog, skipLog, tmpFile>>

NextReplace ==
  \/ Trigger
  \/ RunStep
  \/ PutWithoutCategory

SpecReplace == Init /\ [][NextReplace]_vars

(***************************************************************************)
(* Channels that hold more bulk-eligible messages than one bulkDelete      *)
(* batch takes, under runs whose calls fail.                               *)
(***************************************************************************)
\* how many messages a channel holds: one old message and a second batch of
\* one message, or of two
BatchSizes == {BulkBatchSize + 2, BulkBatchSize + 3}

\* message 1 is older than 14 days, the others are 8 days old
BatchMessages(n) ==
  {[id |-> i, createdAt |-> IF i = 1 THEN StartDay - 15 ELSE StartDay - 8,
    pinned |-> FALSE] : i \in 1..n}

BatchFiles ==
  {[globalDefault |-> Num(7), dryRun |-> dr, maxMessages |-> 3 * FetchPageSize, maxOld |-> 1,
    skipPinned |-> TRUE, discoveryComplete |-> FALSE,
    webhookCleanup |-> TRUE, webhookInfo |-> FALSE,
    scheduleEnabled |-> TRUE, schedule |-> "s1", timezone |-> "tz1",
    categories |-> [alpha |-> AlphaCategory, beta |-> BetaCategory(Bool(TRUE))]] :
   dr \in BOOLEAN}

InitBatches ==
  /\ \E f \in BatchFiles :
       /\ disk = [ok |-> TRUE, data |-> f]
       /\ config = NormalizeConfig(f)
  /\ cronJob = setupCron(config)
  /\ guildPresent = TRUE
  /\ \E n \in BatchSizes : store = [ch \in ChanNames |-> BatchMessages(n)]
  /\ now = StartDay
  /\ cleanupRunning = FALSE
  /\ cleanupCancelled = FALSE
  /\ syncRunning = FALSE
  /\ run = IdleRun
  /\ sync = NoSync
  /\ stats = NoStats
  /\ resolved = NoResolution
  /\ fetchLog = {}
  /\ deleteLog = {}
  /\ skipLog = {}
  /\ used = [runs |-> 0, events |-> 0]
  /\ lastStep = "done"
  /\ tmpFile = NoTmpWrite

NextBatches ==
  \/ Trigger
  \/ RunStep
  \/ Failure

SpecBatches == InitBatches /\ [][NextBatches]_vars

(***************************************************************************)
(* Full sync against a platform whose channels vary: the text channels     *)
(* that exist are the keys of store, each under its fixed parent category. *)
(***************************************************************************)
\* discoveredMap's source: the cached text channels of every category
GuildOf(st) ==
  [c \in DOMAIN GuildCategories |->
     SelectSeq(GuildCategories[c], LAMBDA ch : ch \in DOMAIN st)]

NoOverrides == [present |-> FALSE, map |-> <<>>]

SyncFile(cats) ==
  [globalDefault |-> Num(7), dryRun |-> FALSE, maxMessages |-> 5, maxOld |-> 1,
   skipPinned |-> TRUE, discoveryComplete |-> TRUE,
   webhookCleanup |-> FALSE, webhookInfo |-> FALSE,
   scheduleEnabled |-> TRUE, schedule |-> "s1", timezone |-> "tz1",
   categories |-> cats]

\* configurations a full sync meets: in step with the platform, with a
\* category the platform never had, empty, with a legacy overrides section
\* next to the inline list, with the same channel listed twice, and with an
\* entry for a channel of another category
SyncFiles ==
  {SyncFile([alpha |-> AlphaCategory, beta |-> BetaCategory(Bool(TRUE))]),
   SyncFile([alpha |-> AlphaCategory, beta |-> BetaCategory(Str),
             gamma |-> [enabled |-> Bool(TRUE), default |-> Num(3), deleteOld |-> Undef,
                        overrides |-> NoOverrides,
                        channels |-> <<Override("logs", Num(2))>>]]),
   SyncFile([c \in {} |-> AlphaCategory]),
   SyncFile([alpha |-> [enabled |-> Str, default |-> Num(3), deleteOld |-> Undef,
                        overrides |-> [present |-> TRUE,
                                       map |-> <<Override("general", Num(9))>>],
                        channels |-> <<Override("general", Num(3)), Plain("archive")>>],
             beta |-> BetaCategory(Bool(TRUE))]),
   SyncFile([alpha |-> [enabled |-> Bool(TRUE), default |-> Undef, deleteOld |-> Undef,
                        overrides |-> NoOverrides,
                        channels |-> <<Override("general", Num(3)), Plain("archive"),
                                       Override("general", Num(5))>>],
             beta |-> BetaCategory(Bool(TRUE))]),
   SyncFile([alpha |-> [enabled |-> Bool(TRUE), default |-> Num(0), deleteOld |-> Undef,
                        overrides |-> NoOverrides,
                        channels |-> <<Plain("general"), Override("archive", Num(0)),
                                       Override("logs", Num(5))>>]])}

\* what the last POST /api/control/sync answered, with the configuration and
\* the platform it started from
NoSyncResponse ==
  [done |-> FALSE, changes |-> 0, wrote |-> FALSE, before |-> SyncFile([c \in {} |-> AlphaCategory]),
   platform |-> GuildCategories]

InitSync ==
  /\ \E f \in SyncFiles :
       /\ disk = [ok |-> TRUE, data |-> f]
       /\ config = NormalizeConfig(f)
  /\ cronJob = setupCron(config)
  /\ \E present \in SUBSET ChanNames : store = [ch \in present |-> InitialMessages]
  /\ guildPresent = TRUE
  /\ now = StartDay
  /\ cleanupRunning = FALSE
  /\ cleanupCancelled = FALSE
  /\ syncRunning = FALSE
  /\ run = IdleRun
  /\ sync = NoSync
  /\ stats = NoStats
  /\ resolved = NoSyncResponse
  /\ fetchLog = {}
  /\ deleteLog = {}
  /\ skipLog = {}
  /\ used = [runs |-> 0, events |-> 0]
  /\ lastStep = "done"
  /\ tmpFile = NoTmpWrite

\* guild.channels.fetch() resolved on the platform as it is now: reconcile,
\* write if changed, respond
SyncResponds ==
  /\ sync.pc = "fetchChannels"
  /\ lastStep' = "done"
  /\ LET d == syncConfig(config, GuildOf(store), GuildOrder)
     IN /\ config' = d.cfg
        /\ disk' = IF d.changes > 0 THEN configForDisk(d.cfg) ELSE disk
        /\ resolved' = [done |-> TRUE, changes |-> d.changes, wrote |-> d.changes > 0,
                        before |-> config, platform |-> GuildOf(store)]
  /\ SyncEnds
  /\ UNCHANGED <<guildPresent, store, now, cleanupRunning, cleanupCancelled, cronJob, run,
                 stats, fetchLog, deleteLog, skipLog, used, tmpFile>>

\* a moderator deletes a text channel
ChannelDeleted ==
  /\ CountEvent
  /\ \E ch \in DOMAIN store : store' = [c \in DOMAIN store \ {ch} |-> store[c]]
  /\ lastStep' = "done"
  /\ UNCHANGED <<config, disk, guildPresent, now, cleanupRunning, cleanupCancelled,
                 syncRunning, cronJob, run, sync, stats, resolved, fetchLog, deleteLog,
                 skipLog, tmpFile>>

\* a moderator creates a text channel
ChannelCreated ==
  /\ CountEvent
  /\ \E ch \in ChanNames \ DOMAIN store :
       store' = [c \in DOMAIN store \cup {ch} |-> IF c = ch THEN {} ELSE store[c]]
  /\ lastStep' = "done"
  /\ UNCHANGED <<config, disk, guildPresent, now, cleanupRunning, cleanupCancelled,
                 syncRunning, cronJob, run, sync, stats, resolved, fetchLog, deleteLog,
                 skipLog, tmpFile>>

NextSync == ApiSync \/ SyncResponds \/ SyncThrows \/ ChannelDeleted \/ ChannelCreated

SpecSync == InitSync /\ [][NextSync]_vars

(***************************************************************************)
(* Runs on top of a stats.json that earlier runs have filled: empty, one   *)
(* short of every cap, and at every cap.                                   *)
(***************************************************************************)
\* the record of an earlier live run that found nothing to delete
PastRun(t) ==
  [present |-> TRUE, timestamp |-> t, totalProcessed |-> 0, totalPurged |-> 0,
   totalErrors |-> 0, dryRun |-> FALSE, trigger |-> "schedule", cancelled |-> FALSE,
   categories |-> EmptyMap]

\* the history entry of the run i days before the start
PastEntry(i) ==
  [timestamp |-> StartDay - i, purged |-> i % 3, errors |-> 0, dryRun |-> (i % 2 = 0),
   trigger |-> "schedule", categories |-> EmptyMap]

\* cumulative counts of n keys, two keys to each count from 1 up
PastTotals(keys, n) ==
  [key \in {keys[i] : i \in 1..n} |->
     ((CHOOSE i \in 1..n : keys[i] = key) + 1) \div 2]

PastChannelKeys == [i \in 1..ChannelTotalsCap |-> <<"past", ToString(i)>>]
PastCategoryKeys == [i \in 1..CategoryTotalsCap |-> ToString(i)]

\* stats.json after h runs, with nc channel keys and ng category keys
StatsStore(h, nc, ng) ==
  IF h = 0 THEN NoStats
  ELSE [lastRun |-> PastRun(StartDay - 1), lastLiveRun |-> PastRun(StartDay - 1),
        history |-> [i \in 1..h |-> IF i = 1 THEN HistoryEntry(PastRun(StartDay - 1))
                                     ELSE PastEntry(i)],
        lifetime |-> [present |-> TRUE, totalRuns |-> h, totalPurged |-> nc,
                      totalErrors |-> 0, firstRun |-> StartDay - h],
        channelTotals |-> PastTotals(PastChannelKeys, nc),
        categoryTotals |-> PastTotals(PastCategoryKeys, ng)]

StatsStores ==
  {StatsStore(0, 0, 0),
   StatsStore(HistoryCap - 1, ChannelTotalsCap - 1, CategoryTotalsCap - 1),
   StatsStore(HistoryCap, ChannelTotalsCap, CategoryTotalsCap)}

StatsFiles ==
  {[globalDefault |-> Num(7), dryRun |-> dr, maxMessages |-> 5, maxOld |-> 1,
    skipPinned |-> TRUE, discoveryComplete |-> FALSE,
    webhookCleanup |-> TRUE, webhookInfo |-> FALSE,
    scheduleEnabled |-> TRUE, schedule |-> "s1", timezone |-> "tz1",
    categories |-> [alpha |-> AlphaCategory, beta |-> BetaCategory(Bool(TRUE))]] :
   dr \in BOOLEAN}

InitStats ==
  /\ \E f \in StatsFiles :
       /\ disk = [ok |-> TRUE, data |-> f]
       /\ config = NormalizeConfig(f)
  /\ cronJob = setupCron(config)
  /\ stats \in StatsStores
  /\ guildPresent = TRUE
  /\ store = [ch \in ChanNames |-> ChannelMessages]
  /\ now = StartDay
  /\ cleanupRunning = FALSE
  /\ cleanupCancelled = FALSE
  /\ syncRunning = FALSE
  /\ run = IdleRun
  /\ sync = NoSync
  /\ resolved = NoResolution
  /\ fetchLog = {}
  /\ deleteLog = {}
  /\ skipLog = {}
  /\ used = [runs |-> 0, events |-> 0]
  /\ lastStep = "done"
  /\ tmpFile = NoTmpWrite

NextStats ==
  \/ CronTick
  \/ ApiDryRun
  \/ ForcedLiveRun
  \/ RunStep
  \/ Tick

SpecStats == InitStats /\ [][NextStats]_vars

(***************************************************************************)
(* The durable writes, statement by statement: fs.writeFileSync(tmpPath),  *)
(* fs.renameSync(tmpPath, target), and the process dying in between.       *)
(***************************************************************************)
\* complete new contents of config.yaml
WriteBodies == {[ok |-> TRUE, data |-> f] : f \in DiscoveryFiles}

\* one more write, within the bound
CountWrite ==
  /\ used.runs < MaxRuns
  /\ used' = [used EXCEPT !.runs = @ + 1]

\* a handler that writes the text into config.yaml itself
ConfigWriteBegins_InPlace ==
  /\ tmpFile.pc = "idle"
  /\ CountWrite
  /\ \E body \in WriteBodies :
       /\ tmpFile' = [pc |-> "writing", target |-> "config", content |-> body, left |-> FALSE]
       /\ disk' = [ok |-> FALSE, data |-> body.data]
  /\ lastStep' = "put"
  /\ UNCHANGED <<config, guildPresent, store, now, cleanupRunning, cleanupCancelled,
                 syncRunning, cronJob, run, sync, stats, resolved, fetchLog, deleteLog,
                 skipLog>>

\* a handler has its new config.yaml text and enters writeFileSync(tmpPath):
\* the temporary file exists with part of the text
ConfigWriteBegins ==
  /\ tmpFile.pc = "idle"
  /\ CountWrite
  /\ \E body \in WriteBodies :
       tmpFile' = [pc |-> "writing", target |-> "config", content |-> body, left |-> TRUE]
  /\ lastStep' = "put"
  /\ UNCHANGED <<config, disk, guildPresent, store, now, cleanupRunning, cleanupCancelled,
                 syncRunning, cronJob, run, sync, stats, resolved, fetchLog, deleteLog,
                 skipLog>>

\* persistStats has built data for a run that deleted nothing and enters
\* writeFileSync(tmpPath)
StatsWriteBegins ==
  /\ tmpFile.pc = "idle"
  /\ CountWrite
  /\ tmpFile' = [pc |-> "writing", target |-> "stats",
                 content |-> persistStats(stats, PastRun(now)), left |-> TRUE]
  /\ lastStep' = "done"
  /\ UNCHANGED <<config, disk, guildPresent, store, now, cleanupRunning, cleanupCancelled,
                 syncRunning, cronJob, run, sync, stats, resolved, fetchLog, deleteLog,
                 skipLog>>

\* writeFileSync(tmpPath) returned: the temporary file holds the whole text
TmpWritten ==
  /\ tmpFile.pc = "writing"
  /\ tmpFile' = [tmpFile EXCEPT !.pc = "written"]
  /\ lastStep' = "done"
  /\ UNCHANGED <<config, disk, guildPresent, store, now, cleanupRunning, cleanupCancelled,
                 syncRunning, cronJob, run, sync, stats, resolved, fetchLog, deleteLog,
                 skipLog, used>>

\* renameSync(tmpPath, target) and the rest of the handler: the PUT route
\* reloads the configuration and sets the scheduler up again
Renamed ==
  /\ tmpFile.pc = "written"
  /\ tmpFile' = NoTmpWrite
  /\ lastStep' = "done"
  /\ IF tmpFile.target = "config"
     THEN /\ disk' = tmpFile.content
          /\ config' = loadConfig(config, disk')
          /\ cronJob' = setupCron(config')
          /\ stats' = stats
     ELSE /\ stats' = tmpFile.content
          /\ UNCHANGED <<config, disk, cronJob>>
  /\ UNCHANGED <<guildPresent, store, now, cleanupRunning, cleanupCancelled, syncRunning,
                 run, sync, resolved, fetchLog, deleteLog, skipLog, used>>

\* the process dies during a write and is started again: the files stay as
\* they are, main loads config.yaml and clientReady sets the scheduler up
Crash ==
  /\ tmpFile.pc # "idle"
  /\ CountEvent
  /\ tmpFile' = [pc |-> "idle", target |-> "", left |-> tmpFile.left]
  /\ config' = loadConfig(config, disk)
  /\ cronJob' = setupCron(config')
  /\ lastStep' = "done"
  /\ UNCHANGED <<disk, guildPresent, store, now, cleanupRunning, cleanupCancelled,
                 syncRunning, run, sync, stats, resolved, fetchLog, deleteLog, skipLog>>

NextWrite ==
  \/ ConfigWriteBegins
  \/ StatsWriteBegins
  \/ TmpWritten
  \/ Renamed
  \/ Crash
  \/ Tick

SpecWrite == Init /\ [][NextWrite]_vars

(***************************************************************************)
(* The scheduler under configuration changes. cronJob carries, next to the *)
(* job the module variable refers to, the number of tasks node-cron has    *)
(* scheduled and not stopped (live).                                       *)
(***************************************************************************)
NoLiveJob == [active |-> FALSE, schedule |-> "", timezone |-> "", live |-> 0]

\* a setupCron that schedules the new job without stopping the previous one
setupCronFrom_NoStop(job, cfg) ==
  IF ~cfg.scheduleEnabled THEN [NoLiveJob EXCEPT !.live = job.live]
  ELSE IF ~CronValid(cfg.schedule) THEN [NoLiveJob EXCEPT !.live = job.live]
  ELSE [active |-> TRUE, schedule |-> cfg.schedule, timezone |-> cfg.timezone,
        live |-> job.live + 1]

\* setupCron, statement by statement: stop and forget the previous job, return
\* if the schedule is disabled or invalid, else schedule a new job
setupCronFrom(job, cfg) ==
  LET live == IF job.active THEN job.live - 1 ELSE job.live
  IN IF ~cfg.scheduleEnabled THEN [NoLiveJob EXCEPT !.live = live]
     ELSE IF ~CronValid(cfg.schedule) THEN [NoLiveJob EXCEPT !.live = live]
     ELSE [active |-> TRUE, schedule |-> cfg.schedule, timezone |-> cfg.timezone,
           live |-> live + 1]

\* a key of a request body that may be left out
Absent == "absent"

\* bodies of PATCH /api/config/global: schedule, timezone, globalDefault (left
\* out, valid, below -1), scheduleEnabled, dryRun
GlobalUpdates ==
  [schedule : {Absent, "s2", "bad"}, timezone : {Absent, "tz2"},
   globalDefault : {Undef, Num(3), Num(-2)},
   scheduleEnabled : {Absent, "true", "false"}, dryRun : {Absent, "true"}]

\* bodies of PUT /api/config that differ in the scheduler keys
ScheduleBodies ==
  {[ok |-> TRUE, data |-> [DiscoveryFile([alpha |-> AlphaCategory])
                             EXCEPT !.schedule = sch, !.scheduleEnabled = en]] :
   sch \in {"s1", "bad"}, en \in BOOLEAN}

InitCron ==
  /\ \E f \in InitialFiles :
       /\ disk = [ok |-> TRUE, data |-> f]
       /\ config = NormalizeConfig(f)
  /\ cronJob = setupCronFrom(NoLiveJob, config)
  /\ InitCommon

\* PATCH /api/config/global
PatchGlobal ==
  /\ CountWrite
  /\ \E updates \in GlobalUpdates :
       IF updates.schedule # Absent /\ ~CronValid(updates.schedule)
       THEN /\ lastStep' = "badRequest"
            /\ UNCHANGED <<config, disk, cronJob>>
       ELSE IF /\ updates.globalDefault # Undef
               /\ (\/ ~IsNumber(updates.globalDefault)
                   \/ ~IsInteger(updates.globalDefault)
                   \/ LessThanMinusOne(updates.globalDefault))
       THEN \* 400 after cfg.schedule and cfg.timezone have been assigned
            /\ lastStep' = "badRequest"
            /\ config' = [config EXCEPT
                            !.schedule = IF updates.schedule # Absent
                                         THEN updates.schedule ELSE @,
                            !.timezone = IF updates.timezone # Absent
                                         THEN updates.timezone ELSE @]
            /\ UNCHANGED <<disk, cronJob>>
       ELSE /\ config' = [config EXCEPT
                            !.schedule = IF updates.schedule # Absent
                                         THEN updates.schedule ELSE @,
                            !.timezone = IF updates.timezone # Absent
                                         THEN updates.timezone ELSE @,
                            !.globalDefault = IF updates.globalDefault # Undef
                                              THEN updates.globalDefault ELSE @,
                            !.dryRun = IF updates.dryRun # Absent THEN TRUE ELSE @,
                            !.scheduleEnabled = IF updates.scheduleEnabled # Absent
                                                THEN updates.scheduleEnabled = "true"
                                                ELSE @]
            /\ disk' = configForDisk(config')
            /\ IF \/ updates.schedule # Absent
                  \/ updates.timezone # Absent
                  \/ updates.scheduleEnabled # Absent
               THEN /\ cronJob' = setupCronFrom(cronJob, config')
                    /\ lastStep' = "setupCron"
               ELSE /\ cronJob' = cronJob
                    /\ lastStep' = "done"
  /\ UNCHANGED <<guildPresent, store, now, cleanupRunning, cleanupCancelled, syncRunning,
                 run, sync, stats, resolved, fetchLog, deleteLog, skipLog, tmpFile>>

\* PUT /api/config: write the body, loadConfig(false), setupCron()
PutSchedule ==
  /\ CountWrite
  /\ lastStep' = "setupCron"
  /\ \E body \in ScheduleBodies :
       /\ disk' = body
       /\ config' = loadConfig(config, body)
       /\ cronJob' = setupCronFrom(cronJob, config')
  /\ UNCHANGED <<guildPresent, store, now, cleanupRunning, cleanupCancelled, syncRunning,
                 run, sync, stats, resolved, fetchLog, deleteLog, skipLog, tmpFile>>

NextCron == PatchGlobal \/ PutSchedule \/ Tick

SpecCron == InitCron /\ [][NextCron]_vars

\* the two PATCH handlers of the dashboard
NextPatch == PatchGlobal \/ PatchCategory

SpecPatch == InitCron /\ [][NextPatch]_vars

(***************************************************************************)
(* Cancellation requests at any time, during a run and between runs.       *)
(***************************************************************************)
NextCancel ==
  \/ Trigger
  \/ RunStep
  \/ CancelCleanup
  \/ CancelRefused

SpecCancel == Init /\ [][NextCancel]_vars

(***************************************************************************)
(* Scheduled runs whose awaited calls all settle, by resolving or by        *)
(* rejecting: the event loop resumes a run whenever the call it awaits has *)
(* resolved, so a step of the run that stays possible is eventually taken. *)
(* The fetch ceiling is below, and above, the number of messages a channel *)
(* holds.                                                                  *)
(***************************************************************************)
FetchCeilings == {2, 7}

TermFiles == {[f EXCEPT !.maxMessages = m] : f \in InitialFiles, m \in FetchCeilings}

InitTerm ==
  /\ \E f \in TermFiles :
       /\ disk = [ok |-> TRUE, data |-> f]
       /\ config = NormalizeConfig(f)
  /\ cronJob = setupCron(config)
  /\ InitCommon

NextTerm ==
  \/ CronTick
  \/ RunStep
  \/ Failure
  \/ CancelCleanup

SpecTerm == InitTerm /\ [][NextTerm]_vars /\ WF_vars(RunStep)

(***************************************************************************)
(* The scheduler under dashboard updates, edits of config.yaml by hand and *)
(* the hot reload at the start of every cleanup run.                       *)
(***************************************************************************)
\* config.yaml edited outside the program: another schedule or timezone
FileEdited ==
  /\ CountEvent
  /\ disk.ok
  /\ lastStep' = "done"
  /\ \E sch \in {"s1", "s2"}, tz \in {"tz1", "tz2"} :
       /\ disk' = [disk EXCEPT !.data.schedule = sch, !.data.timezone = tz]
       /\ disk' # disk
  /\ UNCHANGED <<config, guildPresent, store, now, cleanupRunning, cleanupCancelled,
                 syncRunning, cronJob, run, sync, stats, resolved, fetchLog, deleteLog,
                 skipLog, tmpFile>>

NextReload ==
  \/ PatchGlobal
  \/ FileEdited
  \/ Trigger
  \/ RunStep

SpecReload == InitCron /\ [][NextReload]_vars

(***************************************************************************)
(* Runs whose webhook posts fail: fetch rejects or answers a status that   *)
(* is not OK, inside the try/catch of sendWebhook and                      *)
(* sendDiscoveryNotification.                                              *)
(***************************************************************************)
\* a sendWebhook whose fetch is not in a try block: the rejection leaves
\* runCleanup through finally
WebhookFails_Uncaught ==
  /\ run.pc = "webhook"
  /\ lastStep' = "notifyFailed"
  /\ RunAborts
  /\ UNCHANGED <<config, disk, guildPresent, store, now, cleanupCancelled, syncRunning,
                 cronJob, sync, resolved, deleteLog, used, tmpFile>>

\* the post of the cleanup webhook failed: logged, sendWebhook returns
WebhookFails ==
  /\ run.pc = "webhook"
  /\ lastStep' = "notifyFailed"
  /\ Continue([run EXCEPT !.pc = "end"], config)
  /\ UNCHANGED <<config, disk, guildPresent, store, now, cleanupCancelled, syncRunning,
                 cronJob, sync, resolved, deleteLog, used, tmpFile>>

\* the post of the discovery notification failed: logged, the run goes on
DiscoverNotifyFails ==
  /\ run.pc = "discoverNotify"
  /\ lastStep' = "notifyFailed"
  /\ Continue(StartLoops(run, config, GuildCategories, GuildOrder, now, cleanupCancelled),
              config)
  /\ UNCHANGED <<config, disk, guildPresent, store, now, cleanupCancelled, syncRunning,
                 cronJob, sync, resolved, deleteLog, used, tmpFile>>

NextNotify ==
  \/ Trigger
  \/ RunStep
  \/ DiscoverNotified
  \/ WebhookFails
  \/ DiscoverNotifyFails
  \/ PatchCategory
  \/ CorruptFile

SpecNotify == InitDiscovery /\ [][NextNotify]_vars

(***************************************************************************)
(* Properties.                                                             *)
(***************************************************************************)

\* C1: at every moment at most one cleanup-or-sync operation is in flight:
\* no state has a cleanup run and a full sync both between their start and
\* their end.
C1_SingleOperationInFlight == ~(run.pc # "idle" /\ sync.pc # "idle")

\* C2: a runCleanup call that finds a run Running changes nothing: the
\* configuration, the file, the messages, the stats, the cancellation flag,
\* the running flag and the run in flight are what they were, and no run is
\* counted as started.
C2_RejectedCallHasNoEffect ==
  [][(cleanupRunning /\ lastStep' = "rejected") =>
       UNCHANGED <<config, disk, guildPresent, store, now, cleanupRunning, cleanupCancelled,
                   syncRunning, cronJob, run, sync, stats, fetchLog, deleteLog, skipLog,
                   used, tmpFile>>]_vars

\* a trigger was rejected while a run waits for a page of messages, and a
\* cancellation is pending
C2_Witness ==
  /\ lastStep = "rejected"
  /\ cleanupRunning
  /\ cleanupCancelled
  /\ run.pc = "fetch"

\* C3: whenever no cleanup run is in flight the running flag is false, and
\* whenever no sync is in flight the sync guard is false: every exit path
\* releases its flag, so the next trigger passes the guard.
C3_FlagsReleased ==
  /\ run.pc = "idle" => ~cleanupRunning
  /\ sync.pc = "idle" => ~syncRunning

\* a first run was ended by an exception (nothing was persisted), and a later
\* trigger was accepted and is in flight
C3_Witness ==
  /\ used.runs = 2
  /\ used.events = 1
  /\ ~stats.lastRun.present
  /\ run.pc = "fetch"
  /\ cleanupRunning

\* C4 as stated: no fetch and no delete is issued for a channel of a category
\* whose enabled flag is not exactly true at the time of the call.
C4_DisabledNeverCleaned ==
  /\ \A f \in fetchLog : f.enabledNow
  /\ \A d \in deleteLog : d.enabledNow

\* C4, amended: no fetch and no delete is issued for a channel of a category
\* whose enabled flag was not exactly true when the run reached the category
\* in its category loop.
C4_DisabledAtEntryNeverCleaned ==
  /\ \A f \in fetchLog : f.enabledAtEntry
  /\ \A d \in deleteLog : d.enabledAtEntry
  /\ run.pc \in {"fetch", "bulkDel", "oldDel"} => run.enabledAtEntry

\* a live run named category beta in its filter and has ended; beta is not
\* enabled, its channel is listed, and its messages are all still there
C4_Witness ==
  /\ stats.lastRun.present
  /\ ~stats.lastRun.dryRun
  /\ stats.lastRun.totalProcessed = 0
  /\ run.pc = "idle"
  /\ ~isEnabledIn(config, "beta")
  /\ "logs" \in getConfiguredChannels(config, "beta")
  /\ store["logs"] = InitialMessages
  /\ \A f \in fetchLog : f.cat # "beta"

\* C5: a fetch or a delete is issued for a channel only if its name was an
\* entry of the category's _channels list when the category was processed;
\* a platform channel that was not listed is counted as skipped.
C5_OnlyAllowListed ==
  /\ \A f \in fetchLog : f.listedAtEntry
  /\ \A d \in deleteLog : d.listedAtEntry
  /\ run.pc \in {"fetch", "bulkDel", "oldDel"} => CurChan(run) \in run.allowed
  /\ \A s \in skipLog : s.why = "unlisted" => s.counted /\ ~s.recorded

\* channel logs was taken off beta's list during a run: the run skipped it and
\* its messages are all still there
C5_Witness ==
  /\ \E s \in skipLog : s.why = "unlisted" /\ s.chan = "logs" /\ ~s.dry
  /\ isEnabledIn(config, "beta")
  /\ store["logs"] = InitialMessages
  /\ \A f \in fetchLog : f.chan # "logs"
  /\ stats.lastRun.present

\* C6: every deleted message was created strictly before the time its channel
\* was processed minus the retention resolved for the channel at that time.
C6_OnlyOlderThanRetention ==
  \A d \in deleteLog :
    /\ ~d.dry
    /\ d.retention.k = "num" /\ ~d.retention.half /\ d.retention.n >= 0
    /\ d.createdAt < d.chanNow - d.retention.n

\* with pin-skipping off and a retention of 7 days, the message created exactly
\* 7 days before the channel was processed is still there and an older one is not
C6_Witness ==
  /\ \E d \in deleteLog : d.chan = "general" /\ d.retention = Num(7) /\ d.chanNow = StartDay
  /\ ~config.skipPinned
  /\ \E m \in store["general"] : m.createdAt = StartDay - 7
  /\ \A m \in store["general"] : m.createdAt >= StartDay - 7
  /\ run.pc = "idle"

\* C7: no fetch and no delete is issued for a channel whose resolved
\* retention is -1, and the run records such a channel as skipped.
C7_NeverDeleteSkipped ==
  /\ \A f \in fetchLog : f.retention # Num(-1)
  /\ \A d \in deleteLog : d.retention # Num(-1)
  /\ run.pc \in {"fetch", "bulkDel", "oldDel"} => run.retention # Num(-1)
  /\ \A s \in skipLog : s.why = "never" => s.recorded /\ s.retention = Num(-1)

\* a dry run and a live run both passed channel archive (override -1): each
\* recorded it as skipped and its messages are all still there
C7_Witness ==
  /\ \E s \in skipLog : s.why = "never" /\ s.chan = "archive" /\ s.dry
  /\ \E s \in skipLog : s.why = "never" /\ s.chan = "archive" /\ ~s.dry
  /\ \E d \in deleteLog : d.chan = "general"
  /\ \A f \in fetchLog : f.chan # "archive"
  /\ store["archive"] = InitialMessages

\* the delete sets of the run in flight
DeleteSets == SeqToSet(run.bulkDeletable) \cup SeqToSet(run.oldDeletable)
                \cup SeqToSet(run.oldToDelete)

\* C8: a pinned message enters a delete set, and is deleted, only if
\* pin-skipping was off when its page was classified; with pin-skipping on,
\* every pinned message is still in its channel.
C8_PinnedNotDeleted ==
  /\ \A m \in DeleteSets : m.pinned => ~m.skipPinned
  /\ \A d \in deleteLog : d.pinned => ~d.skipPinned
  /\ config.skipPinned =>
       \A ch \in ChanNames : \A m \in InitialMessages : m.pinned => m \in store[ch]

\* with pin-skipping on, a live run deleted an unpinned message of channel
\* general and left the older, pinned one
C8_Witness ==
  /\ config.skipPinned
  /\ \E d \in deleteLog : d.chan = "general" /\ ~d.pinned /\ d.createdAt = StartDay - 14
  /\ \E m \in store["general"] : m.pinned /\ m.createdAt = StartDay - 15
  /\ run.pc = "idle"

\* an integer >= -1
ValidRetentionValue(v) == v.k = "num" /\ ~v.half /\ v.n >= -1

\* the inline overrides of a channel, in list order
OverrideValues(cat, channelName) ==
  SelectSeq(cat.channels, LAMBDA e : e.name = channelName /\ e.ov # Undef)

\* the tier a channel's retention comes from and the value written there
Tier(cfg, categoryName, channelName) ==
  LET cat == cfg.categories[categoryName]
      ovs == OverrideValues(cat, channelName)
  IN IF ovs # <<>> THEN [source |-> "override", value |-> ovs[1].ov]
     ELSE IF cat.default # Undef THEN [source |-> "category", value |-> cat.default]
     ELSE [source |-> "global", value |-> cfg.globalDefault]

\* C9: getRetentionSource names the first tier that is present, override
\* before category default before global default, and getRetention returns
\* the value of that tier when it is an integer >= -1.
C9_Precedence ==
  (resolved.done /\ resolved.cat \in DOMAIN config.categories) =>
    LET t == Tier(config, resolved.cat, resolved.chan)
    IN /\ resolved.source = t.source
       /\ ValidRetentionValue(t.value) => resolved.ret = t.value /\ ~resolved.warn

\* global 7, category default 14, override general: -1 gives -1/override
C9_Witness ==
  /\ resolved.done
  /\ resolved.cat = "alpha" /\ resolved.chan = "general"
  /\ config.globalDefault = Num(7)
  /\ config.categories["alpha"].default = Num(14)
  /\ config.categories["alpha"].channels = <<Override("general", Num(-1))>>
  /\ resolved.ret = Num(-1)
  /\ resolved.source = "override"

\* C10: for a configured category getRetention returns an integer >= -1, and
\* when the override or category default it finds is not an integer >= -1 it
\* returns the global default with a warning.
C10_InvalidFallsBack ==
  (resolved.done /\ resolved.cat \in DOMAIN config.categories) =>
    LET t == Tier(config, resolved.cat, resolved.chan)
    IN /\ ValidRetentionValue(resolved.ret)
       /\ ValidRetentionValue(config.globalDefault)
       /\ ~ValidRetentionValue(t.value) =>
            resolved.ret = config.globalDefault /\ resolved.warn

\* an override of -2 over a category default of 14: the global default, with a warning
C10_Witness ==
  /\ resolved.done
  /\ resolved.cat = "alpha" /\ resolved.chan = "general"
  /\ config.categories["alpha"].channels = <<Override("general", Num(-2))>>
  /\ config.categories["alpha"].default = Num(14)
  /\ config.globalDefault = Num(0)
  /\ resolved.ret = Num(0)
  /\ resolved.warn


\* the mode the spec calls dry-run: config.dryRun or forceDryRun set, forceLive not
DryRunMode(r) == ~r.forceLive /\ (r.configDryRun \/ r.forceDryRun)

\* C11: a run whose effective mode is dry-run issues no single-delete and no
\* batch-delete call: it is never waiting on a delete call or on the pause after
\* one, no delete call was ever issued by such a run, and while no forced-live
\* run has happened the messages of every channel are all still there
C11_DryRunIssuesNoDelete ==
  /\ DryRunMode(run) => run.pc \notin {"bulkDel", "oldDel", "oldSleep"}
  /\ \A d \in deleteLog : ~DryRunMode(d)
  /\ (deleteLog = {}) => \A ch \in ChanNames : store[ch] = ChannelMessages

\* a dry run asked for by the dashboard has scanned a channel with messages of
\* both sets to delete, and is past the place where a live run deletes them
C11_Witness ==
  /\ DryRunMode(run) /\ run.forceDryRun /\ ~run.configDryRun
  /\ run.pc = "sleepChan"
  /\ Len(run.bulkDeletable) > 0 /\ Len(run.oldDeletable) > 0
  /\ config.maxOld > 0
  /\ store[CurChan(run)] = ChannelMessages

\* the individual delete calls of run n in channel ch that the old loop issued
OldDeletes(n, ch) == {d \in deleteLog : d.runNo = n /\ d.chan = ch /\ d.via = "old"}

\* the individually-eligible messages of the channel just scanned beyond the cap
BeyondCap(r) == SubSeq(r.oldDeletable, config.maxOld + 1, Len(r.oldDeletable))

\* C12: per channel per run the individual delete calls for messages aged 14
\* days or more (as classified) are at most maxOldDeletesPerChannel: the slice
\* the old loop walks, the position of the call in flight and the calls logged
\* are all within the cap, every message of that age is deleted by that loop
\* only, and when a live channel is done the messages beyond the cap are counted
\* in the "remain" line, are still in the channel and are still older than the
\* retention cutoff
C12_OldDeletesCapped ==
  /\ Len(run.oldToDelete) <= config.maxOld
  /\ run.pc \in {"oldDel", "oldSleep"} => run.oi <= config.maxOld
  /\ \A n \in 1..MaxRuns, ch \in ChanNames : Cardinality(OldDeletes(n, ch)) <= config.maxOld
  /\ \A d \in deleteLog : (d.via = "old") <=> (d.chanNow - d.createdAt >= BulkDeleteDays)
  /\ run.pc = "sleepChan" =>
       /\ run.remaining = Len(BeyondCap(run))
       /\ ~run.dry =>
            \A i \in 1..Len(BeyondCap(run)) :
              LET m == BeyondCap(run)[i]
              IN /\ StoredMessage(m) \in store[CurChan(run)]
                 /\ m.createdAt < now - ToNumber(run.retention)
                 /\ ~(m.pinned /\ config.skipPinned)

\* with cap 1 the first run deleted one of the two old messages of a channel and
\* reported the other as remaining; the second run has deleted that one
C12_Witness ==
  /\ config.maxOld = 1
  /\ \E ch \in ChanNames :
       \E d1 \in OldDeletes(1, ch), d2 \in OldDeletes(2, ch) :
         /\ d1.id # d2.id
         /\ d2.chanNow - d2.createdAt >= BulkDeleteDays
         /\ d1.chanNow - d2.createdAt >= BulkDeleteDays

\* how often the message with this id is in a list
Occurrences(list, id) == Cardinality({i \in 1..Len(list) : list[i].id = id})

\* the channel's scan is over and its deletion or its result is at hand
Scanned(r) == r.pc \in {"bulkDel", "oldDel", "oldSleep", "sleepChan"}

\* each scanned message of a channel whose category deletes old messages is in
\* bulkDeletable once if it is eligible and younger than 14 days at the scan, in
\* oldDeletable once if it is eligible and 14 days or older, and in neither list
\* if it is not eligible
PartitionedAtScan ==
  Scanned(run) /\ run.deleteOld =>
    \A msg \in run.seen :
      LET eligible == /\ msg.createdAt < run.chanNow - ToNumber(run.retention)
                      /\ ~(msg.pinned /\ config.skipPinned)
          age == run.chanNow - msg.createdAt
          inBulk == Occurrences(run.bulkDeletable, msg.id)
          inOld == Occurrences(run.oldDeletable, msg.id)
      IN /\ inBulk = (IF eligible /\ age < BulkDeleteDays THEN 1 ELSE 0)
         /\ inOld = (IF eligible /\ age >= BulkDeleteDays THEN 1 ELSE 0)

\* C13 as stated: the messages are partitioned by their age, and no message
\* that is 14 days old or older when the batch-delete call is made is in the
\* batch handed to it
C13_NoOldMessagePassedToBatch ==
  /\ PartitionedAtScan
  /\ run.pc = "bulkDel" /\ Len(CurBatch(run)) > 1 =>
       \A i \in 1..Len(CurBatch(run)) :
         run.callAt - CurBatch(run)[i].createdAt < BulkDeleteDays

\* C13 with the age taken when the channel's cutoffs are computed: the messages
\* are partitioned by that age, the message exactly 14 days old being
\* individually-eligible, and every message of a batch handed to the batch-delete
\* call was younger than 14 days at that moment
C13_PartitionedByAgeAtScan ==
  /\ PartitionedAtScan
  /\ run.pc = "bulkDel" =>
       \A i \in 1..Len(CurBatch(run)) :
         run.chanNow - CurBatch(run)[i].createdAt < BulkDeleteDays

\* a batch of two is about to be deleted in a channel that holds a message exactly
\* 14 days old, which is in oldDeletable, and one 13 days old, which is in the batch
C13_Witness ==
  /\ run.pc = "bulkDel" /\ run.deleteOld /\ Len(CurBatch(run)) > 1
  /\ \E i \in 1..Len(run.oldDeletable) :
       run.chanNow - run.oldDeletable[i].createdAt = BulkDeleteDays
  /\ \E i \in 1..Len(CurBatch(run)) :
       run.chanNow - CurBatch(run)[i].createdAt = BulkDeleteDays - 1

\* the result pushed for the channel the run has just finished
LastResult(r) == r.channelResults[Len(r.channelResults)]

\* the results the last persisted run has for the channel the run in flight is at
PersistedResults(r) ==
  IF stats.lastRun.present /\ CurCat(r) \in DOMAIN stats.lastRun.categories
  THEN LET channels == stats.lastRun.categories[CurCat(r)].channels
       IN {channels[k] : k \in {i \in 1..Len(channels) : channels[i].name = CurChan(r)}}
  ELSE {}

\* the last persisted run was a dry run
LastRunWasDry == stats.lastRun.present /\ stats.lastRun.dryRun

\* the messages the delete calls of the run in flight removed from its channel
DeletedHere(r) == {d \in deleteLog : d.runNo = r.runNo /\ d.chan = CurChan(r)}

InChannelLoop(r) == r.pc \in {"fetch", "bulkDel", "oldDel", "oldSleep", "sleepChan"}

\* the channels of the current category, up to a position, that are allow-listed
\* and pass the channel filter
ChannelsDue(r, upto) ==
  {j \in 1..upto : /\ CurChannels(r)[j] \in r.allowed
                   /\ r.chanFilter \in {"", CurChannels(r)[j]}}

\* the error results of a list of channel results
ErrorResults(results) == {i \in 1..Len(results) : results[i].error}

\* the errors counted in the categories the run has finished
RECURSIVE FinishedErrors(_, _)
FinishedErrors(r, k) ==
  IF k = 0 THEN 0
  ELSE FinishedErrors(r, k - 1) +
       (IF r.catMap[k].name \in DOMAIN r.categoryStats
        THEN r.categoryStats[r.catMap[k].name].errors ELSE 0)

\* a rejected fetch or bulk delete leaves the run in the pause before the next
\* channel, with one more error and one more result, the failed channel's
FailureRecorded ==
  (FetchThrows \/ BulkThrows) =>
    /\ cleanupRunning' /\ run'.pc = "sleepChan"
    /\ run'.totalErrors = run.totalErrors + 1
    /\ Len(run'.channelResults) = Len(run.channelResults) + 1
    /\ LastResult(run').name = CurChan(run) /\ LastResult(run').error
    /\ run'.catMap = run.catMap /\ run'.ci = run.ci /\ run'.chi = run.chi

\* no channel and no category before the run's position was left out, and the
\* error counter is the number of error results
NothingLeftOut ==
  InChannelLoop(run) =>
    /\ Len(run.channelResults) =
         Cardinality(ChannelsDue(run, IF run.pc = "sleepChan" THEN run.chi ELSE run.chi - 1))
    /\ \A k \in 1..(run.ci - 1) :
         \/ run.catMap[k].name \in DOMAIN run.categoryStats
         \/ ~isEnabledIn(config, run.catMap[k].name)
         \/ run.catFilter \notin {"", run.catMap[k].name}
    /\ run.totalErrors =
         FinishedErrors(run, run.ci - 1) + Cardinality(ErrorResults(run.channelResults))

\* C15: a failed fetch or bulk delete in a channel is recorded as that channel's
\* error and adds exactly one to the run's error counter, and the run goes on:
\* at every point of a run each allow-listed channel of the current category and
\* each enabled category before its position has been processed
C15_FailureIsolated == [][FailureRecorded]_vars /\ []NothingLeftOut

\* a channel of the first category failed, and the run has since scanned a channel
\* of the next category and counted messages to delete there
C15_Witness ==
  /\ run.pc = "sleepChan" /\ run.ci = 2 /\ run.totalErrors = 1
  /\ run.catMap[1].name \in DOMAIN run.categoryStats
  /\ run.categoryStats[run.catMap[1].name].errors = 1
  /\ ~LastResult(run).error /\ LastResult(run).purged > 0

\* the run leaves runCleanup through an exception
RunThrows == ChannelsFetchThrows \/ DiscoveryWriteThrows \/ WebhookThrows

\* cancelCleanup() was called before the run read the flag for its record
CancelledInTime == cleanupRunning /\ cleanupCancelled /\ (run.pc = "webhook" => run.cancelled)

\* once the flag is set the run issues a fetch or a delete call only for the
\* channel it was in the middle of, and when it returns without an exception its
\* record has cancelled = true, is the new lastRun and first history entry, and
\* the running flag is down
CancelObserved ==
  CancelledInTime =>
    /\ run'.pc \in {"fetch", "bulkDel", "oldDel"} =>
         /\ run.pc \in {"fetch", "bulkDel", "oldDel", "oldSleep"}
         /\ run'.ci = run.ci /\ run'.chi = run.chi /\ run'.runNo = run.runNo
    /\ store' # store => /\ run.pc \in {"bulkDel", "oldDel"}
                         /\ \A ch \in ChanNames \ {CurChan(run)} : store'[ch] = store[ch]
    /\ ~cleanupRunning' /\ ~RunThrows =>
         /\ stats'.lastRun.present /\ stats'.lastRun.cancelled
         /\ stats'.lastRun.totalProcessed = run.totalProcessed
         /\ stats'.history = Take(<<HistoryEntry(stats'.lastRun)>> \o stats.history, HistoryCap)

\* C16: after cancelCleanup() no channel beyond the one being processed is fetched
\* or deleted from, and when the run returns its record says cancelled and is
\* persisted and the running flag is released
C16_CancelStopsRun == [][CancelObserved]_vars

\* a run was cancelled in its first category: it has ended, its persisted record
\* says cancelled and has no entry for the second category, whose channel still
\* holds every message
C16_Witness ==
  /\ ~cleanupRunning /\ stats.lastRun.present /\ stats.lastRun.cancelled
  /\ isEnabledIn(config, "beta")
  /\ "alpha" \in DOMAIN stats.lastRun.categories
  /\ "beta" \notin DOMAIN stats.lastRun.categories
  /\ store["logs"] = InitialMessages
  /\ Len(stats.history) = 1

\* C17: a run that finds the guild missing aborts before discovery and before any
\* channel is touched, and its record (zero processed, zero purged, an error) is
\* the lastRun and the first history entry of the stats store
C17_GuildErrorPersisted ==
  lastStep = "guildNotFound" =>
    /\ ~cleanupRunning /\ run = IdleRun
    /\ stats.lastRun.present
    /\ stats.lastRun.totalProcessed = 0 /\ stats.lastRun.totalPurged = 0
    /\ stats.lastRun.totalErrors = 1
    /\ stats.history # <<>> /\ stats.history[1] = HistoryEntry(stats.lastRun)

\* the first run found the guild missing and has returned: no fetch and no delete
\* was issued, the running flag is down, and the stats store is still empty
C17_Witness ==
  /\ lastStep = "guildNotFound" /\ used.runs = 1
  /\ ~guildPresent /\ ~cleanupRunning
  /\ fetchLog = {} /\ deleteLog = {}
  /\ stats = NoStats

\* a reload that finds config.yaml unreadable, at the start of an accepted run or
\* after the dashboard has written the file, leaves the configuration object as
\* it was, and the run goes on to fetch the guild's channels
FailedReloadHarmless ==
  /\ used'.runs = used.runs + 1 /\ ~disk.ok =>
       /\ config' = config
       /\ guildPresent => cleanupRunning' /\ run'.pc = "fetchChannels"
  /\ lastStep' = "put" /\ ~disk'.ok => config' = config

\* C18: a failed reload leaves the in-memory configuration exactly as it was, and
\* the run continues with it
C18_FailedReloadKeepsConfig == [][FailedReloadHarmless]_vars

\* a second run started while config.yaml could not be read: it is scanning a
\* channel with the configuration of the first run, the mark of the first
\* discovery pass included
C18_Witness ==
  /\ ~disk.ok /\ cleanupRunning /\ run.runNo = 2 /\ run.pc = "fetch"
  /\ config.discoveryComplete
  /\ DOMAIN config.categories = {"alpha", "beta"}

\* how often an entry is in a channel list
EntryCount(list, e) == Cardinality({i \in 1..Len(list) : list[i] = e})

\* a category that was configured keeps its fields and every entry of its list;
\* what its list gains are plain entries for the guild's channels it lacked
CategoryKept(a, b, guildChannels) ==
  LET had == {e.name : e \in SeqToSet(a.channels)}
  IN /\ b.enabled = a.enabled /\ b.default = a.default
     /\ b.deleteOld = a.deleteOld /\ b.overrides = a.overrides
     /\ \A e \in SeqToSet(a.channels) : EntryCount(b.channels, e) = EntryCount(a.channels, e)
     /\ \A e \in SeqToSet(b.channels) \ SeqToSet(a.channels) :
          /\ e.ov = Undef /\ e.name \in guildChannels \ had
          /\ EntryCount(b.channels, e) = 1
     /\ guildChannels \subseteq {e.name : e \in SeqToSet(b.channels)}

\* a category found on the platform: disabled, the global default, and the sorted
\* list of all its channels as plain entries
CategoryAdded(b, globalDefault, guildChannels) ==
  /\ b.enabled = Bool(FALSE) /\ b.default = globalDefault
  /\ Len(b.channels) = Cardinality(guildChannels)
  /\ {e.name : e \in SeqToSet(b.channels)} = guildChannels
  /\ \A i \in 1..Len(b.channels) : b.channels[i].ov = Undef
  /\ \A i \in 1..(Len(b.channels) - 1) :
       NameRank[b.channels[i].name] < NameRank[b.channels[i + 1].name]

\* the configuration after autoDiscoverChannels against the one before
Additive(old, new) ==
  /\ [new EXCEPT !.categories = old.categories,
                 !.discoveryComplete = old.discoveryComplete] = old
  /\ \A c \in DOMAIN old.categories :
       /\ c \in DOMAIN new.categories
       /\ CategoryKept(old.categories[c], new.categories[c],
                       IF c \in DOMAIN GuildCategories THEN SeqToSet(GuildCategories[c]) ELSE {})
  /\ \A c \in DOMAIN new.categories \ DOMAIN old.categories :
       /\ c \in DOMAIN GuildCategories
       /\ CategoryAdded(new.categories[c], old.globalDefault, SeqToSet(GuildCategories[c]))
  /\ \A c \in DOMAIN GuildCategories :
       GuildCategories[c] # <<>> => c \in DOMAIN new.categories

\* C19: the step of a run that carries out autoDiscoverChannels only adds: every
\* category, list entry and override that was configured is still there with its
\* value, enabled flags and defaults are unchanged, a category new on the
\* platform is added disabled with the global default and its sorted channel
\* list, and a new channel of a configured category is added as a plain entry
C19_DiscoveryAdditive ==
  [][run.pc = "fetchChannels" /\ run'.pc # "fetchChannels" => Additive(config, config')]_vars

\* the first run's discovery met a disabled category with default 3 and one
\* override entry, and no second category: the override, flag and default are
\* kept, the category's other channel is added before it in the list, and the
\* second category is added disabled with the global default
C19_Witness ==
  /\ used.runs = 1 /\ used.events = 0 /\ stats.lastRun.present
  /\ DOMAIN disk.data.categories = {"alpha", "beta"}
  /\ config.categories["alpha"].enabled = Bool(FALSE)
  /\ config.categories["alpha"].default = Num(3)
  /\ config.categories["alpha"].channels = <<Plain("archive"), Override("general", Num(0))>>
  /\ config.categories["beta"].enabled = Bool(FALSE)
  /\ config.categories["beta"].default = Num(7)
  /\ config.categories["beta"].channels = <<Plain("logs")>>

\* no run of this process has been through autoDiscoverChannels yet (each run
\* that has been is in the stats)
FirstDiscoveryPass == ~stats.lastRun.present

\* the first pass sends nothing; a later pass that adds a category or a channel
\* goes on to await sendDiscoveryNotification
NotificationRule ==
  ChannelsFetched =>
    IF FirstDiscoveryPass THEN run'.pc # "discoverNotify"
    ELSE (config'.categories # config.categories /\ config'.webhookInfo)
           => run'.pc = "discoverNotify"

\* C20: the first discovery pass of the process emits no notification, and every
\* later pass that discovers a category or a channel emits one to the info
\* webhook
C20_NotifiesAfterFirstPass == [][NotificationRule]_vars

\* a second run is awaiting sendDiscoveryNotification: its reload had failed, so
\* the mark of the first pass was still in memory when discovery added a channel
C20_Witness ==
  /\ run.pc = "discoverNotify" /\ run.runNo = 2
  /\ config.discoveryComplete /\ config.webhookInfo

\* the category has text channels on the platform
OnPlatform(g, c) == c \in DOMAIN g /\ g[c] # <<>>

\* the channel names of an allow-list, in list order
ListedNames(entries) == [i \in 1..Len(entries) |-> entries[i].name]

\* the sync removed one category and left every other category as it was
OnlyOneCategoryGone(before, after) ==
  /\ DOMAIN after.categories \subseteq DOMAIN before.categories
  /\ Cardinality(DOMAIN before.categories \ DOMAIN after.categories) = 1
  /\ \A c \in DOMAIN after.categories : after.categories[c] = before.categories[c]

\* C21: after a full sync, every category that was configured and has no
\* counterpart on the platform is gone from the configuration; the allow-list
\* of every category still configured names exactly the platform's current
\* channels of that category, each once; and when the only difference was one
\* known category gone from the platform, the sync reports exactly one change
\* and has written the new configuration to the file.
C21_SyncReconcilesBothWays ==
  resolved.done =>
    /\ \A c \in DOMAIN resolved.before.categories :
         ~OnPlatform(resolved.platform, c) => c \notin DOMAIN config.categories
    /\ \A c \in DOMAIN config.categories :
         /\ OnPlatform(resolved.platform, c)
         /\ ListedNames(config.categories[c].channels)
              = SortNames(SeqToSet(resolved.platform[c]))
    /\ OnlyOneCategoryGone(resolved.before, config) =>
         /\ resolved.changes = 1
         /\ resolved.wrote
         /\ disk = configForDisk(config)

\* a sync has answered one change: category gamma, configured before, is gone
\* and the two categories of the platform are as they were
C21_Witness ==
  /\ resolved.done /\ resolved.changes = 1 /\ resolved.wrote
  /\ "gamma" \in DOMAIN resolved.before.categories
  /\ DOMAIN config.categories = {"alpha", "beta"}
  /\ OnlyOneCategoryGone(resolved.before, config)

\* the sync answering now follows one that answered for the same platform
SecondSync == SyncResponds /\ resolved.done /\ resolved.platform = GuildOf(store)

\* a second sync changes nothing; any sync that counts no change writes nothing
SyncSettles ==
  /\ SecondSync =>
       /\ resolved'.changes = 0
       /\ config' = config
       /\ ~resolved'.wrote /\ disk' = disk
  /\ (SyncResponds /\ resolved'.changes = 0) => disk' = disk

\* C22: a sync that follows another with no channel or category created or
\* deleted on the platform in between reports zero changes, leaves the
\* configuration in memory identical and writes no file; a sync writes the
\* file only when its change count is above zero.
C22_SyncIdempotent == [][SyncSettles]_vars

\* a sync has answered zero changes on a configuration only an earlier sync
\* can have produced: the legacy overrides section migrated into the list
C22_Witness ==
  /\ resolved.done /\ resolved.changes = 0 /\ resolved.before = config
  /\ "alpha" \in DOMAIN config.categories
  /\ config.categories["alpha"].channels
       = <<Plain("archive"), Override("general", Num(9))>>
  /\ ~config.categories["alpha"].overrides.present
  /\ disk = configForDisk(config)

\* no channel is listed twice
UniqueEntries(entries) ==
  \A i, j \in 1..Len(entries) : entries[i].name = entries[j].name => i = j

\* what one category keeps through the sync that answered last
OverridesKept(c) ==
  LET old == resolved.before.categories[c]
      new == config.categories[c]
  IN /\ \A ch \in SeqToSet(resolved.platform[c]) :
          getChannelOverride(old, ch) # Undef
            => getChannelOverride(new, ch) = getChannelOverride(old, ch)
     /\ \A i \in 1..Len(new.channels) :
          new.channels[i].ov # Undef => new.channels[i].name \in SeqToSet(resolved.platform[c])
     /\ new.enabled = old.enabled
     /\ new.default = old.default

\* C23: after a full sync, in every category that was configured before and
\* is still configured (its list naming each channel once), each channel that
\* had an inline override and still exists on the platform has the same
\* override value in the rebuilt list, no override is left for a channel the
\* platform no longer has, and enabled and default are as before.
C23_SyncPreservesOverrides ==
  resolved.done =>
    \A c \in DOMAIN resolved.before.categories \cap DOMAIN config.categories :
      UniqueEntries(resolved.before.categories[c].channels) => OverridesKept(c)

\* a sync has answered: general had the inline override 3 and the category a
\* legacy overrides section naming general with 9; the list now carries 9
C23_Witness ==
  /\ resolved.done
  /\ "alpha" \in DOMAIN resolved.before.categories \cap DOMAIN config.categories
  /\ resolved.before.categories["alpha"].overrides.present
  /\ getChannelOverride(resolved.before.categories["alpha"], "general") = Num(3)
  /\ getChannelOverride(config.categories["alpha"], "general") = Num(9)

\* persistStats has written stats.json in this step
StatsWritten == stats' # stats

\* the new run is entry 1, the former entries follow unchanged, one place
\* down, and only what would pass the cap is gone
HistoryShifted ==
  StatsWritten =>
    /\ Len(stats'.history) = IF Len(stats.history) < HistoryCap
                             THEN Len(stats.history) + 1 ELSE HistoryCap
    /\ stats'.history[1].timestamp = stats'.lastRun.timestamp
    /\ stats'.history[1].purged = stats'.lastRun.totalPurged
    /\ stats'.history[1].errors = stats'.lastRun.totalErrors
    /\ stats'.history[1].dryRun = stats'.lastRun.dryRun
    /\ \A i \in 2..Len(stats'.history) : stats'.history[i] = stats.history[i - 1]

HistoryBounded ==
  /\ Len(stats.history) <= HistoryCap
  /\ \A i, j \in 1..Len(stats.history) :
       i < j => stats.history[i].timestamp >= stats.history[j].timestamp

DroppedKeys(merged, kept) == DOMAIN merged \ DOMAIN kept

\* the leaderboard after a live run: within the cap, every count as summed,
\* and no dropped key with a higher count than a kept one
PrunedWell(merged, kept, cap) ==
  /\ Cardinality(DOMAIN kept) <= cap
  /\ DOMAIN kept \subseteq DOMAIN merged
  /\ Cardinality(DOMAIN kept) = IF Cardinality(DOMAIN merged) > cap THEN cap
                                 ELSE Cardinality(DOMAIN merged)
  /\ \A a \in DOMAIN kept : kept[a] = merged[a]
  /\ \A b \in DroppedKeys(merged, kept) : \A a \in DOMAIN kept : kept[a] >= merged[b]

LeaderboardsPruned ==
  (StatsWritten /\ ~stats'.lastRun.dryRun) =>
    /\ PrunedWell(AddChannelTotals(stats.channelTotals, stats'.lastRun.categories),
                  stats'.channelTotals, ChannelTotalsCap)
    /\ PrunedWell(AddCategoryTotals(stats.categoryTotals, stats'.lastRun.categories),
                  stats'.categoryTotals, CategoryTotalsCap)

LeaderboardsBounded ==
  /\ Cardinality(DOMAIN stats.channelTotals) <= ChannelTotalsCap
  /\ Cardinality(DOMAIN stats.categoryTotals) <= CategoryTotalsCap

\* C25: after any persistStats call for a live run the per-channel
\* leaderboard has at most 200 entries and the per-category leaderboard at
\* most 100, and the pruning of that call keeps the highest counts: every
\* entry retained has a cumulative count >= that of every entry dropped.
C25_LeaderboardsKeepHighest == [][LeaderboardsPruned]_vars /\ []LeaderboardsBounded

\* a live run on full leaderboards: both are at their caps, the run's channel
\* and category are in them, and a key with the lowest count is gone from each
C25_Witness ==
  /\ stats.lastRun.present /\ ~stats.lastRun.dryRun /\ stats.lastRun.timestamp >= StartDay
  /\ Cardinality(DOMAIN stats.channelTotals) = ChannelTotalsCap
  /\ Cardinality(DOMAIN stats.categoryTotals) = CategoryTotalsCap
  /\ <<"alpha", "general">> \in DOMAIN stats.channelTotals
  /\ "alpha" \in DOMAIN stats.categoryTotals
  /\ \E i \in {1, 2} : PastChannelKeys[i] \notin DOMAIN stats.channelTotals
  /\ \E i \in {1, 2} : PastCategoryKeys[i] \notin DOMAIN stats.categoryTotals

\* the lifetime counters before the first live run count as zero
LifetimeBefore ==
  IF stats.lifetime.present THEN stats.lifetime
  ELSE [present |-> TRUE, totalRuns |-> 0, totalPurged |-> 0, totalErrors |-> 0,
        firstRun |-> stats'.lastRun.timestamp]

CumulativeOnlyLive ==
  StatsWritten =>
    IF stats'.lastRun.dryRun
    THEN /\ stats'.lifetime = stats.lifetime
         /\ stats'.channelTotals = stats.channelTotals
         /\ stats'.categoryTotals = stats.categoryTotals
         /\ stats'.lastLiveRun = stats.lastLiveRun
    ELSE /\ stats'.lifetime.totalRuns = LifetimeBefore.totalRuns + 1
         /\ stats'.lifetime.totalPurged
              = LifetimeBefore.totalPurged + stats'.lastRun.totalPurged
         /\ stats'.lifetime.totalErrors
              = LifetimeBefore.totalErrors + stats'.lastRun.totalErrors
         /\ stats'.lastLiveRun = stats'.lastRun

\* C26: persistStats for a dry run leaves the lifetime counters, both
\* leaderboards and lastLiveRun as they were (lastRun and history change); for
\* a live run lifetime.totalRuns grows by 1 and totalPurged and totalErrors
\* grow by the run's totals.
C26_OnlyLiveRunsAccumulate == [][CumulativeOnlyLive]_vars

\* a dry run that would delete messages was persisted after a live run of this
\* process: lastRun is the dry one, the lifetime counters show one run
C26_Witness ==
  /\ stats.lastRun.present /\ stats.lastRun.dryRun /\ stats.lastRun.totalPurged > 0
  /\ stats.lastLiveRun.present /\ stats.lastLiveRun.timestamp >= StartDay
  /\ stats.lifetime.present /\ stats.lifetime.totalRuns = 1
  /\ Len(stats.history) = 2

\* a durable file changes only in a rename, and then to the whole new text
OnlyWholeContent ==
  /\ disk' # disk =>
       /\ tmpFile.pc = "written" /\ tmpFile.target = "config"
       /\ disk' = tmpFile.content
  /\ stats' # stats =>
       /\ tmpFile.pc = "written" /\ tmpFile.target = "stats"
       /\ stats' = tmpFile.content

\* C27: every durable write puts the full new content into a temporary file
\* and only then renames it over the target: through every step, a crash
\* during the write included, the stats file and the configuration file hold
\* either their complete previous content or the complete new content, and
\* the configuration file is never a partial text.
C27_WritesAtomic == [][OnlyWholeContent]_vars /\ [](disk.ok)

\* the process died inside writeFileSync and was started again: the partial
\* temporary file is left over and config.yaml is whole
C27_Witness ==
  /\ tmpFile.pc = "idle" /\ tmpFile.left
  /\ used.events = 1
  /\ disk.ok /\ config = NormalizeConfig(disk.data)

\* what a handler that called setupCron leaves behind
AfterSetupCron ==
  lastStep' = "setupCron" =>
    IF config'.scheduleEnabled /\ CronValid(config'.schedule)
    THEN /\ cronJob'.active /\ cronJob'.live = 1
         /\ cronJob'.schedule = config'.schedule
         /\ cronJob'.timezone = config'.timezone
    ELSE ~cronJob'.active /\ cronJob'.live = 0

\* node-cron runs at most one task of this process, the one cronJob refers to
OneJob ==
  /\ cronJob.live <= 1
  /\ cronJob.active <=> cronJob.live = 1

PersistedAsItStood ==
  /\ ~cleanupRunning' /\ run' = IdleRun
  /\ stats'.lastRun = RunStats(run, now)
  /\ stats'.lastRun.totalErrors = run.totalErrors
  /\ stats'.history[1].timestamp = now
  /\ stats'.history[1].errors = run.totalErrors

\* an enabled category of the guild has an allow-listed channel that is not
\* kept forever, and neither a filter nor a cancellation is in the way
WorkAhead ==
  /\ ~cleanupCancelled /\ run.catFilter = "" /\ run.chanFilter = ""
  /\ \E c \in DOMAIN GuildCategories :
       /\ isEnabledIn(config, c)
       /\ \E ch \in SeqToSet(GuildCategories[c]) \cap getConfiguredChannels(config, c) :
            getRetention(config, c, ch).ret # Num(-1)

\* a failed post changes nothing but the log
NotifierHarmless ==
  lastStep' = "notifyFailed" =>
    IF run.pc = "webhook" THEN PersistedAsItStood
    ELSE /\ WorkAhead => (cleanupRunning' /\ run'.pc = "fetch")
         /\ \/ /\ cleanupRunning' /\ InChannelLoop(run')
               /\ run'.totalErrors = 0
            \/ /\ ~cleanupRunning' /\ run' = IdleRun
               /\ stats'.lastRun.present /\ stats'.lastRun.timestamp = now
               /\ stats'.lastRun.totalErrors = 0

\* C29: a post to the cleanup webhook or to the discovery webhook that throws
\* or is answered with a status that is not OK is only logged: the run's
\* error counter stays as it was, the channels still to come are processed,
\* the run record is persisted to the stats and the Running flag is released.
C29_NotifierFailureHarmless == [][NotifierHarmless]_vars

\* the cleanup webhook failed after a run that deleted messages: the run is
\* in the stats with its count and no error, and no run is in flight
C29_Witness ==
  /\ lastStep = "notifyFailed"
  /\ ~cleanupRunning /\ run = IdleRun
  /\ stats.lastRun.present /\ stats.lastRun.totalPurged > 0
  /\ stats.lastRun.totalErrors = 0

\* the skips recorded in this step
NewSkips == skipLog' \ skipLog

\* a message is fetched or deleted only by a run past its discovery: in a
\* later step, or in the step that carries discovery out and goes on
DiscoveryFirst ==
  (fetchLog' # fetchLog \/ deleteLog' # deleteLog \/ store' # store) =>
    /\ run.pc # "idle"
    /\ run.pc = "fetchChannels" => ChannelsFetched

\* discovery leaves every configured category with every channel the guild
\* has in it on the allow-list
DiscoveryCompletes ==
  ChannelsFetched =>
    \A c \in DOMAIN config.categories \cap DOMAIN GuildCategories :
      SeqToSet(GuildCategories[c]) \subseteq getConfiguredChannels(config', c)

RequestSinceDiscovery == run.pc # "fetchChannels" /\ used.events > run.eventsAtDiscovery

FailedDeleteChannelEnds ==
  run.pc = "oldSleep" /\ run.delFailed /\ run'.pc = "sleepChan"

\* C31: when an individual delete of a message aged 14 days or more fails in
\* a live run, the result of that channel carries an error and the run's
\* error counter is incremented.
C31_DeleteFailureCounted ==
  [][FailedDeleteChannelEnds =>
       /\ LastResult(run').name = CurChan(run)
       /\ LastResult(run').error
       /\ run'.totalErrors = run.totalErrors + 1]_vars

\* a live run pausing after an individual delete that failed
C31_Witness ==
  /\ run.pc = "oldSleep" /\ run.delFailed /\ ~run.dry
  /\ run.oldToDelete[run.oi].createdAt <= run.chanNow - BulkDeleteDays

\* the step in which the deletion phase of a live channel ends without an error
DeletionPhaseEnds ==
  /\ run.pc \in {"bulkDel", "oldSleep"}
  /\ run'.pc = "sleepChan"
  /\ ~LastResult(run').error

\* C32: once the deletion phase of a channel has started a cancellation request
\* does not stop it: when the phase ends, every bulk batch and every one of the
\* capped individually-eligible messages of the channel has been attempted.
C32_CancelOnlyAtChannelBoundary ==
  [][DeletionPhaseEnds =>
       /\ run'.bi >= Len(run'.bulkDeletable)
       /\ run'.oi > Len(run'.oldToDelete)]_vars

\* cancellation was requested while a live run awaits a bulk delete, with
\* individually-eligible messages of the channel still to be deleted
C32_Witness ==
  /\ cleanupCancelled /\ ~run.dry
  /\ run.pc = "bulkDel"
  /\ Len(run.oldDeletable) > 0 /\ config.maxOld > 0

\* the configuration already lists every category and channel of the guild
NothingNew ==
  \A c \in DOMAIN GuildCategories :
    GuildCategories[c] # <<>> =>
      /\ c \in DOMAIN config.categories
      /\ SeqToSet(GuildCategories[c]) \subseteq getConfiguredChannels(config, c)

\* C33: a cleanup run whose discovery pass finds no new category and no new
\* channel performs no configuration write.
C33_DiscoveryWritesOnlyChanges ==
  [][(ChannelsFetched /\ NothingNew) => lastStep' # "discoveryWrite"]_vars

\* the second run, with no configuration request or file edit since the
\* first, has just written the configuration file in its discovery pass
C33_Witness ==
  /\ lastStep = "discoveryWrite"
  /\ run.runNo = 2 /\ used.events = 0
  /\ disk = configForDisk(config)

\* C34: no message is deleted under an unresolved retention: when the category
\* being processed is no longer in the configuration, its remaining channels
\* have no message deleted.
C34_NoDeleteWithoutRetention ==
  \A e \in deleteLog : e.retention # Null

\* a message of archive, listed as never-delete when the run entered alpha,
\* was deleted after the configuration was replaced by one without alpha
C34_Witness ==
  /\ "alpha" \notin DOMAIN config.categories
  /\ \E e \in deleteLog : e.cat = "alpha" /\ e.chan = "archive" /\ e.retention = Null

\* the step in which a channel of a live run ends, with a result or an error
LiveChannelEnds ==
  /\ ~run.dry
  /\ run.pc \in {"fetch", "bulkDel", "oldSleep"}
  /\ run'.pc = "sleepChan"

\* the messages the store has deleted for this run, in one channel and in all
DeletedByRun(log, r) == {e \in log : e.runNo = r.runNo}
DeletedInChannel(log, r) ==
  {e \in DeletedByRun(log, r) : e.cat = CurCat(r) /\ e.chan = CurChan(r)}

\* C35: in a live run the purged value reported for a channel, and the run's
\* totalPurged, equal the number of messages the store deleted for that
\* channel, and for the run so far, also when a later call of the channel fails.
C35_PurgedIsDeleted ==
  [][LiveChannelEnds =>
       /\ LastResult(run').purged = Cardinality(DeletedInChannel(deleteLog', run))
       /\ run'.totalPurged = Cardinality(DeletedByRun(deleteLog', run))]_vars

\* a live run awaits the second bulk batch of a channel after the first
\* batch deleted messages
C35_Witness ==
  /\ ~run.dry /\ run.pc = "bulkDel" /\ run.bi > 0
  /\ DeletedInChannel(deleteLog, run) # {}

\* C36: whenever a scheduler job is active, its cron expression and timezone
\* are the schedule and timezone of the in-memory configuration, after any
\* dashboard updates and reloads, the hot reload of a run included.
C36_JobReflectsConfig ==
  cronJob.active =>
    /\ cronJob.schedule = config.schedule
    /\ cronJob.timezone = config.timezone

\* a run has reloaded a file whose schedule was edited, and the job that is
\* active was scheduled before the edit
C36_Witness ==
  /\ run.pc = "fetchChannels"
  /\ disk.ok /\ disk.data.schedule = "s2" /\ config.schedule = "s2"
  /\ cronJob.active /\ cronJob.schedule = "s1"

\* C37: a dashboard update rejected with a 400 leaves the in-memory
\* configuration, the configuration file and the scheduler job unchanged.
C37_RejectedUpdateChangesNothing ==
  [][lastStep' = "badRequest" =>
       /\ config' = config
       /\ disk' = disk
       /\ cronJob' = cronJob]_vars

\* a PATCH /global was answered 400 for its globalDefault, and the schedule in
\* memory is no longer the one of the file and of the job
C37_Witness ==
  /\ lastStep = "badRequest"
  /\ config.schedule = "s2"
  /\ disk.data.schedule = "s1"
  /\ cronJob.active /\ cronJob.schedule = "s1"

\* a call of cancelCleanup() that found no run changes nothing
RefusedCancelIsNoOp ==
  lastStep' = "notRunning" =>
    /\ ~cleanupRunning /\ ~cleanupRunning'
    /\ cleanupCancelled' = cleanupCancelled
    /\ run' = run /\ stats' = stats /\ store' = store /\ config' = config

\* an accepted run starts with the flag cleared
StartsCleared == (~cleanupRunning /\ cleanupRunning') => ~cleanupCancelled'

\* a run in flight has the flag set only by a request made during that run
SetOnlyDuringRun ==
  (cleanupRunning' /\ cleanupCancelled') =>
    \/ cleanupRunning /\ cleanupCancelled /\ run'.runNo = run.runNo
    \/ cleanupRunning /\ CancelCleanup

\* a persisted record says cancelled only if the flag was set during that run
RecordedOnlyIfRequested ==
  (stats' # stats /\ stats'.lastRun.present /\ stats'.lastRun.cancelled) =>
    cleanupRunning /\ cleanupCancelled

\* C38: a cancellation request never leaks into another run: cancelCleanup()
\* with no run active changes nothing, every run starts with the flag cleared,
\* and a run is cancelled only by a request made while it was running.
C38_CancelNeverLeaks ==
  [][/\ RefusedCancelIsNoOp
     /\ StartsCleared
     /\ SetOnlyDuringRun
     /\ RecordedOnlyIfRequested]_vars

\* the first run was cancelled and recorded so, and the second run is in
\* flight with the flag cleared
C38_Witness ==
  /\ cleanupRunning /\ run.runNo = 2 /\ run.pc = "fetch"
  /\ ~cleanupCancelled
  /\ stats.lastRun.present /\ stats.lastRun.cancelled

\* the fetch loop of a channel has fetched no more than the ceiling, and is
\* left when the ceiling is reached
FetchBounded ==
  /\ run.pc = "fetch" => run.fetched < run.maxMessages
  /\ run.pc # "idle" => run.fetched <= run.maxMessages

\* a fetch that resolves with an empty page ends the fetch loop of the channel
StopsAtEmptyPage ==
  (/\ FetchResolves
   /\ FetchPage(store[CurChan(run)], run.lastId, FetchLimit(run)) = <<>>)
  => ~(run'.pc = "fetch" /\ run'.ci = run.ci /\ run'.chi = run.chi /\ run'.runNo = run.runNo)

\* C39: every accepted cleanup run terminates when its calls and delays
\* return: the fetch loop of a channel stops at maxMessagesPerChannel messages
\* or at the first empty page, and the running flag eventually becomes false.
C39_RunTerminates ==
  /\ []FetchBounded
  /\ [][StopsAtEmptyPage]_vars
  /\ (cleanupRunning ~> ~cleanupRunning)

\* a run that has fetched every message of a channel below the ceiling awaits
\* the page that will come back empty
C39_Witness ==
  /\ cleanupRunning /\ run.pc = "fetch"
  /\ run.fetched > 0 /\ run.fetched < run.maxMessages
  /\ FetchPage(store[CurChan(run)], run.lastId, FetchLimit(run)) = <<>>

\* the categories that exist on the platform, with or without text channels
PlatformCategories(platform) == DOMAIN platform

\* C40: a full sync removes a category from the configuration only if the
\* platform has no category of that name: a configured category that exists
\* on the platform is still configured after the sync, with its enabled flag
\* and its default, even when it holds no text channel.
C40_ExistingCategoryKept ==
  resolved.done =>
    \A c \in DOMAIN resolved.before.categories \cap PlatformCategories(resolved.platform) :
       /\ c \in DOMAIN config.categories
       /\ config.categories[c].enabled = resolved.before.categories[c].enabled
       /\ config.categories[c].default = resolved.before.categories[c].default

\* a sync has removed a configured category that exists on the platform and
\* holds no text channel
C40_Witness ==
  /\ resolved.done
  /\ \E c \in DOMAIN resolved.before.categories \cap PlatformCategories(resolved.platform) :
       /\ resolved.platform[c] = <<>>
       /\ c \notin DOMAIN config.categories
       /\ resolved.wrote
====
